---- MODULE Spec2Model ----
(***************************************************************************)
(* Constraint assembly of biorbd_optim (src/biorbd_optim/constraints.py).  *)
(*                                                                         *)
(* The optimal control program `ocp` owns one residual vector ocp.g and    *)
(* two bound lists ocp.g_bounds.min / ocp.g_bounds.max.  Two entry points  *)
(* extend them: Constraint.add_constraints(ocp, nlp), which walks the      *)
(* constraint descriptors of one phase, and                                *)
(* Constraint.continuity_constraint(ocp), which adds the intra-phase,      *)
(* inter-phase and cyclic continuity residuals.                            *)
(*                                                                         *)
(* Symbolic CasADi expressions are modelled as records (one record per     *)
(* scalar row of ocp.g); phases and nodes are numbered from 0 as in the    *)
(* source, descriptors of a phase from 1 (position in the list).           *)
(***************************************************************************)
EXTENDS Integers, Sequences, FiniteSets, TLC

VARIABLES
    nlp,                   \* ocp.nlp: phase p -> [ns, nx, constraints]
    is_cyclic_constraint,  \* ocp.is_cyclic_constraint
    g,                     \* ocp.g, one entry per scalar row
    g_bounds,              \* ocp.g_bounds: [min, max]
    gOwner,                \* history: for each row of g, the unit that appended it
    bOwner,                \* history: for each bound pair, the unit that appended it
    units,                 \* history: the units (descriptors, continuity blocks) processed
    last,                  \* history: the last call and how it ended
    called,                \* history: the calls of user callables and their arguments
    threads,               \* the two threads that share ocp: where each one stands
    serialized,            \* the caller lets only one thread at a time run a builder
    agg,                   \* a MultiFatigueModel: [cls, suffix, isdict, models]
    ftrace,                \* history: the requests made to agg and how they ended
    registry,              \* a FatigueList: options[0], family -> FatigueUniqueList
    calls                  \* history: number of calls made

vars == <<nlp, is_cyclic_constraint, g, g_bounds, gOwner, bOwner, units, last, called,
          threads, serialized, agg, ftrace, registry, calls>>

\* The state of the constraint builders and the state of the fatigue aggregator
ocp_vars == <<nlp, is_cyclic_constraint, g, g_bounds, gOwner, bOwner, units, last, called,
              threads, serialized>>
fatigue_vars == <<agg, ftrace, registry>>

(***************************************************************************)
(* Bounds of the model.                                                    *)
(***************************************************************************)
MaxPhases == 2
MaxNs == 2
MaxNx == 3
MaxCalls == 2
MaxDescr == 2

(***************************************************************************)
(* Values.                                                                 *)
(***************************************************************************)
\* math.inf and finite bound values, kept apart from each other
Fin(v) == [inf |-> 0, v |-> v]
PosInf == [inf |-> 1, v |-> 0]
NegInf == [inf |-> -1, v |-> 0]

\* No MultiFatigueModel was constructed
NoAggregator == [cls |-> "", suffix |-> <<>>, isdict |-> FALSE, models |-> <<>>]

\* The messages of the RuntimeError raised by add_constraints
NoControlMsg == "No control u at last node"
NotValidMsg == "is not a valid constraint, take a look in Constraint.Type class"

\* Constraint.Type, in the order of the enum
ConstraintType ==
    << "markers_to_match", "align_with_custom_rt", "projection_on_plane",
       "track_q", "proportional_q", "proportional_control",
       "contact_force_greater_than", "contact_force_lesser_than",
       "non_slipping", "custom" >>

Range(s) == {s[i] : i \in DOMAIN s}

RECURSIVE Flatten(_)
Flatten(ss) == IF ss = <<>> THEN <<>> ELSE Head(ss) \o Flatten(Tail(ss))

\* casadi.vertcat on column vectors: the rows of a followed by the rows of b
vertcat(a, b) == a \o b

\* n copies of v appended one at a time (for _ in range(n): list.append(v))
Repeat(v, n) == [i \in 1..n |-> v]

\* Node selectors (Instant values and plain node numbers)
InstantOf(e) == [e |-> e, n |-> 0]
NodeOf(n) == [e |-> "int", n |-> n]

(***************************************************************************)
(* Symbolic expressions: one record per scalar.                            *)
(***************************************************************************)
\* nlp["X"][k][j] of phase p
XVar(p, k, j) == [kind |-> "X", p |-> p, k |-> k, j |-> j]
\* row j of nlp["dynamics"].call({"x0": X[k], "p": U[k]})["xf"] of phase p
Xf(p, k, j) == [kind |-> "xf", p |-> p, k |-> k, j |-> j]
\* a - b
Sub(a, b) == [kind |-> "sub", a |-> a, b |-> b]
\* row r of model.marker(q, m) with q expanded from X[k][:nq]
Marker(p, k, m, r) == [kind |-> "marker", p |-> p, k |-> k, m |-> m, r |-> r]
\* row r of the zyx Euler angles of globalJCS(q, segment)^T * RT(q, rt)
Euler(p, k, segment, rt, r) ==
    [kind |-> "euler", p |-> p, k |-> k, segment |-> segment, rt |-> rt, r |-> r]
\* row axe of the marker expressed in the segment's frame
Projected(p, k, marker, segment, axe) ==
    [kind |-> "projected", p |-> p, k |-> k, marker |-> marker,
     segment |-> segment, axe |-> axe]
\* data_to_track[t, s]
Data(t, s) == [kind |-> "data", t |-> t, s |-> s]
\* expand.map(v)[first] - coef * expand.map(v)[second], v = X[k] or U[k]
Proportional(v, p, k, first, second, coef) ==
    [kind |-> "proportional", v |-> v, p |-> p, k |-> k,
     first |-> first, second |-> second, coef |-> coef]
\* CS_func(X[kx], U[ku])[idx]
CS(p, kx, ku, idx) == [kind |-> "CS", p |-> p, kx |-> kx, ku |-> ku, idx |-> idx]
\* mu * (sum of normal) + sign * (sum of tangential)
Friction(mu, normal, tangential, sign) ==
    [kind |-> "friction", mu |-> mu, normal |-> normal,
     tangential |-> tangential, sign |-> sign]
\* a row appended by a user supplied callable
CustomRow(p, k) == [kind |-> "custom", p |-> p, k |-> k]

(***************************************************************************)
(* The rigid-body model of a phase, as far as the builders query it.       *)
(***************************************************************************)
nbMarkers == 2
nbSegment == 1
nbRTs == 1

\* What marker(q, i) and globalJCS(q, i) of nlp["model"] do with an index past
\* the count: the library raises, or it reads past its array and returns a value
ModelAccess == {"raises", "unchecked"}

\* The model holds an element of that index
model_has(index, count) == 0 <= index /\ index < count

(***************************************************************************)
(* Helpers inherited from Goal (goal.py is not part of src/).              *)
(***************************************************************************)
\* Goal._get_instant(nlp, constraint): the node selector resolved to the time
\* indices t, the state slices X and the control slices U (given by node number)
get_instant(ph, instant) ==
    CASE instant.e = "START" -> [t |-> <<0>>, X |-> <<0>>, U |-> <<0>>]
      [] instant.e = "END" -> [t |-> <<ph.ns>>, X |-> <<ph.ns>>, U |-> <<>>]
      [] instant.e = "ALL" ->
            [t |-> [i \in 1..(ph.ns + 1) |-> i - 1],
             X |-> [i \in 1..(ph.ns + 1) |-> i - 1],
             U |-> [i \in 1..ph.ns |-> i - 1]]
      [] OTHER ->
            [t |-> <<instant.n>>, X |-> <<instant.n>>,
             U |-> IF instant.n < ph.ns THEN <<instant.n>> ELSE <<>>]

\* Goal._check_idx(name, elements, max_bound): every index is in [0, max_bound)
check_idx(elements, max_bound) == \A e \in elements : 0 <= e /\ e < max_bound

\* Goal._check_and_fill_index(var_idx, target_size, name): () means every index
check_and_fill_index(var_idx, target_size) ==
    IF var_idx = <<>> THEN [i \in 1..target_size |-> i - 1] ELSE var_idx

\* Goal._check_tracking_data_size(data, expected): the shape is the expected one
check_tracking_data_size(data, expected) == data.shape = expected

(***************************************************************************)
(* What a builder did: the rows and bounds it appended to ocp.g and        *)
(* ocp.g_bounds, or the exception it raised before appending.              *)
(***************************************************************************)
Appended(rows, mins, maxs) == [raised |-> "", g |-> rows, min |-> mins, max |-> maxs]
Raised(msg) == [raised |-> msg, g |-> <<>>, min |-> <<>>, max |-> <<>>]

\* v[i] for every i of idx, v an expression of n rows: an index past the rows
\* raises
rows_exist(n, idx) == \A i \in idx : 0 <= i /\ i < n

\* **constraint: the keyword arguments must be the builder's parameters
Kwargs(rest, required, optional) ==
    required \subseteq DOMAIN rest /\ DOMAIN rest \subseteq (required \cup optional)

\* Variant: only the first two coordinates of the markers are compared
markers_to_match_planar(p, ph, X, first_marker, second_marker) ==
    IF ~check_idx({first_marker, second_marker}, nbMarkers)
    THEN Raised("Invalid marker index")
    ELSE Appended(
            Flatten([i \in 1..Len(X) |->
                [r \in 1..2 |-> Sub(Marker(p, X[i], first_marker, r - 1),
                                    Marker(p, X[i], second_marker, r - 1))]]),
            Flatten([i \in 1..Len(X) |-> Repeat(Fin(0), 2)]),
            Flatten([i \in 1..Len(X) |-> Repeat(Fin(0), 2)]))

\* Constraint.__markers_to_match(ocp, nlp, X, first_marker, second_marker)
markers_to_match(p, ph, X, first_marker, second_marker) ==
    IF ~check_idx({first_marker, second_marker}, nbMarkers)
    THEN Raised("Invalid marker index")
    ELSE Appended(
            Flatten([i \in 1..Len(X) |->
                [r \in 1..3 |-> Sub(Marker(p, X[i], first_marker, r - 1),
                                    Marker(p, X[i], second_marker, r - 1))]]),
            Flatten([i \in 1..Len(X) |-> Repeat(Fin(0), 3)]),
            Flatten([i \in 1..Len(X) |-> Repeat(Fin(0), 3)]))

\* Constraint.__align_with_custom_rt(ocp, nlp, X, segment, rt)
align_with_custom_rt(p, ph, X, segment, rt) ==
    IF ~check_idx({segment}, nbSegment) THEN Raised("Invalid segment index")
    ELSE IF ~check_idx({rt}, nbRTs) THEN Raised("Invalid rt index")
    ELSE Appended(
            Flatten([i \in 1..Len(X) |->
                [r \in 1..3 |-> Euler(p, X[i], segment, rt, r - 1)]]),
            Flatten([i \in 1..Len(X) |-> Repeat(Fin(0), 3)]),
            Flatten([i \in 1..Len(X) |-> Repeat(Fin(0), 3)]))

\* Constraint.__projection_on_plane_constraint(ocp, nlp, X, marker, segment, axes)
projection_on_plane_constraint(p, ph, X, marker, segment, axes) ==
    \* no _check_idx here: the indices reach the model as they are
    IF /\ ~(model_has(segment, nbSegment) /\ model_has(marker, nbMarkers))
       /\ ph.model = "raises"
    THEN Raised("model index error")
    \* n_seg[axe, 0] of the 3 rows of n_seg: the axes before the first one past
    \* the rows have their row and bounds appended when it raises
    ELSE IF X # <<>> /\ \E a \in DOMAIN axes : ~rows_exist(3, {axes[a]})
    THEN LET k == CHOOSE a \in DOMAIN axes :
                    /\ ~rows_exist(3, {axes[a]})
                    /\ \A b \in 1..(a - 1) : rows_exist(3, {axes[b]})
         IN  [raised |-> "index out of bounds",
              g |-> [a \in 1..(k - 1) |-> Projected(p, X[1], marker, segment, axes[a])],
              min |-> Repeat(Fin(0), k - 1),
              max |-> Repeat(Fin(0), k - 1)]
    ELSE Appended(
            Flatten([i \in 1..Len(X) |->
                [a \in 1..Len(axes) |-> Projected(p, X[i], marker, segment, axes[a])]]),
            Flatten([i \in 1..Len(X) |-> Repeat(Fin(0), Len(axes))]),
            Flatten([i \in 1..Len(X) |-> Repeat(Fin(0), Len(axes))]))

\* data_to_track[t[idx], states_idx] of a numpy array: every column index must
\* be inside the second dimension of the array
columns_exist(data_to_track, idx) ==
    \A s \in DOMAIN idx : idx[s] < data_to_track.shape[2]

\* Variant: the shape of data_to_track is not validated
q_to_match_unvalidated(p, ph, t, x, data_to_track, states_idx) ==
    LET idx == check_and_fill_index(states_idx, ph.nx)
    IN  IF ~check_idx(Range(idx), ph.nx) THEN Raised("Invalid state_idx index")
        ELSE Appended(
                Flatten([i \in 1..Len(x) |->
                    [s \in 1..Len(idx) |->
                        Sub(XVar(p, x[i], idx[s]), Data(t[i], idx[s]))]]),
                Flatten([i \in 1..Len(x) |-> Repeat(Fin(0), Len(idx))]),
                Flatten([i \in 1..Len(x) |-> Repeat(Fin(0), Len(idx))]))

\* Constraint.__q_to_match(ocp, nlp, t, x, data_to_track, states_idx=())
q_to_match(p, ph, t, x, data_to_track, states_idx) ==
    LET idx == check_and_fill_index(states_idx, ph.nx)
    IN  IF ~check_idx(Range(idx), ph.nx) THEN Raised("Invalid state_idx index")
        ELSE IF ~check_tracking_data_size(data_to_track, <<ph.ns + 1, Len(idx)>>)
        THEN Raised("data_to_track target size is wrong")
        ELSE IF x # <<>> /\ ~columns_exist(data_to_track, idx)
        THEN Raised("IndexError")
        ELSE Appended(
                Flatten([i \in 1..Len(x) |->
                    [s \in 1..Len(idx) |->
                        Sub(XVar(p, x[i], idx[s]), Data(t[i], idx[s]))]]),
                Flatten([i \in 1..Len(x) |-> Repeat(Fin(0), Len(idx))]),
                Flatten([i \in 1..Len(x) |-> Repeat(Fin(0), Len(idx))]))

\* The Python types a coef is drawn from
CoefKinds == {"int", "float", "bool", "Fraction", "str"}

\* isinstance(coef, (int, float)); bool is a subclass of int
isinstance_int_float(coef) == coef.kind \in {"int", "float", "bool"}

\* Variant: the type of coef is not tested
proportional_variable_any_coef(p, ph, v, UX, rows, first_dof, second_dof, coef) ==
    IF ~check_idx({first_dof, second_dof}, rows) THEN Raised("Invalid dof index")
    ELSE IF UX # <<>> /\ ~rows_exist(ph.expand, {first_dof, second_dof})
    THEN Raised("index out of bounds")
    ELSE Appended(
            [i \in 1..Len(UX) |->
                Proportional(v, p, UX[i], first_dof, second_dof, coef.v)],
            [i \in 1..Len(UX) |-> Fin(0)],
            [i \in 1..Len(UX) |-> Fin(0)])

\* Constraint.__proportional_variable(ocp, nlp, UX, first_dof, second_dof, coef);
\* v names the variable (X or U), UX its slices, rows the row count UX.rows()
proportional_variable(p, ph, v, UX, rows, first_dof, second_dof, coef) ==
    IF ~check_idx({first_dof, second_dof}, rows) THEN Raised("Invalid dof index")
    ELSE IF ~isinstance_int_float(coef) THEN Raised("coef must be an int or a float")
    \* v = nlp["q_mapping"].expand.map(v); v[first_dof], v[second_dof]
    ELSE IF UX # <<>> /\ ~rows_exist(ph.expand, {first_dof, second_dof})
    THEN Raised("index out of bounds")
    ELSE Appended(
            [i \in 1..Len(UX) |->
                Proportional(v, p, UX[i], first_dof, second_dof, coef.v)],
            [i \in 1..Len(UX) |-> Fin(0)],
            [i \in 1..Len(UX) |-> Fin(0)])

\* Variant: the two bound directions exchanged
contact_force_bounds_swapped(_type, boundary) ==
    IF _type = "GREATER_THAN" THEN [min |-> <<NegInf>>, max |-> <<Fin(boundary)>>]
    ELSE IF _type = "LESSER_THAN" THEN [min |-> <<Fin(boundary)>>, max |-> <<PosInf>>]
    ELSE [min |-> <<>>, max |-> <<>>]

\* The bounds appended for one contact-force row, by _type
contact_force_bounds(_type, boundary) ==
    IF _type = "GREATER_THAN" THEN [min |-> <<Fin(boundary)>>, max |-> <<PosInf>>]
    ELSE IF _type = "LESSER_THAN" THEN [min |-> <<NegInf>>, max |-> <<Fin(boundary)>>]
    ELSE [min |-> <<>>, max |-> <<>>]

\* Constraint.__contact_force_inequality(ocp, nlp, X, U, _type, idx, boundary)
contact_force_inequality(p, ph, X, U, _type, idx, boundary) ==
    Appended(
        [i \in 1..Len(U) |-> CS(p, X[i], U[i], idx)],
        Flatten([i \in 1..Len(U) |-> contact_force_bounds(_type, boundary).min]),
        Flatten([i \in 1..Len(U) |-> contact_force_bounds(_type, boundary).max]))

\* The two accumulators of __non_slipping after its two inner loops at slice i:
\* both loops add into normal_contact_force, tangential_contact_force stays 0
contact_force_sums(p, kx, ku, normal_component_idx, tangential_component_idx) ==
    [normal |->
        [n \in 1..Len(normal_component_idx) |-> CS(p, kx, ku, normal_component_idx[n])]
        \o [n \in 1..Len(tangential_component_idx) |->
                CS(p, kx, ku, tangential_component_idx[n])],
     tangential |-> <<>>]

\* Constraint.__non_slipping(ocp, nlp, X, U, normal_component_idx,
\*                           tangential_component_idx, static_friction_coefficient)
non_slipping(p, ph, X, U, normal_component_idx, tangential_component_idx, mu) ==
    Appended(
        Flatten([i \in 1..Len(U) |->
            LET f == contact_force_sums(p, X[i], U[i], normal_component_idx,
                                        tangential_component_idx)
            IN  << Friction(mu, f.normal, f.tangential, 1),
                   Friction(mu, f.normal, f.tangential, -1) >>]),
        Flatten([i \in 1..Len(U) |-> <<Fin(0), Fin(0)>>]),
        Flatten([i \in 1..Len(U) |-> <<PosInf, PosInf>>]))

\* func(ocp, nlp, x, u, **constraint) of a custom descriptor: user code, either
\* one that leaves ocp alone or one that appends a row and a bound pair per slice
custom_function(func, p, x, u) ==
    IF func = "append_per_node"
    THEN Appended([i \in 1..Len(x) |-> CustomRow(p, x[i])],
                  [i \in 1..Len(x) |-> Fin(0)], [i \in 1..Len(x) |-> Fin(0)])
    ELSE Appended(<<>>, <<>>, <<>>)

(***************************************************************************)
(* Constraint.add_constraints(ocp, nlp)                                    *)
(***************************************************************************)
\* Variant: the keys stay in the descriptor
Del_keeps_keys(constraint, ks) == constraint

\* del constraint[k] for the keys ks
Del(constraint, ks) == [k \in DOMAIN constraint \ ks |-> constraint[k]]

\* Variant: only Instant.END counts as the last node
is_last_node_end_only(instant, ph) == instant = InstantOf("END")

\* instant == Instant.END or instant == nlp["ns"]
is_last_node(instant, ph) == instant = InstantOf("END") \/ instant = NodeOf(ph.ns)

\* Variant: no final else, a type outside Constraint.Type falls into the custom branch
type_branch_no_else(_type) ==
    IF \E b \in DOMAIN ConstraintType : ConstraintType[b] = _type
    THEN _type ELSE "custom"

\* The branch of the if/elif chain that _type selects: the first whose
\* Constraint.Type equals it, the final else when none does
type_branch(_type) ==
    IF \E b \in DOMAIN ConstraintType : ConstraintType[b] = _type
    THEN ConstraintType[CHOOSE b \in DOMAIN ConstraintType :
                            /\ ConstraintType[b] = _type
                            /\ \A c \in 1..(b - 1) : ConstraintType[c] # _type]
    ELSE "else"

\* A call builder(ocp, nlp, ..., **constraint): what the builder did, or the
\* TypeError of a call whose keywords are not the builder's parameters
Call(builder, kwargs_ok, res) ==
    IF kwargs_ok
    THEN [builder |-> builder, raised |-> res.raised,
          g |-> res.g, min |-> res.min, max |-> res.max]
    ELSE [builder |-> "", raised |-> "TypeError", g |-> <<>>, min |-> <<>>, max |-> <<>>]

NoControl == Call("", TRUE, Raised(NoControlMsg))

\* The body of the branch taken for one descriptor: instant and rest are the
\* selector and the descriptor left after the del, sel the resolved slices
dispatch(p, ph, branch, instant, rest, sel) ==
    CASE branch = "markers_to_match" ->
            LET ok == Kwargs(rest, {"first_marker", "second_marker"}, {})
            IN  Call("markers_to_match", ok,
                     IF ok THEN markers_to_match(p, ph, sel.X, rest.first_marker,
                                                 rest.second_marker)
                     ELSE Raised(""))
      [] branch = "align_with_custom_rt" ->
            LET ok == Kwargs(rest, {"segment", "rt"}, {})
            IN  Call("align_with_custom_rt", ok,
                     IF ok THEN align_with_custom_rt(p, ph, sel.X, rest.segment, rest.rt)
                     ELSE Raised(""))
      [] branch = "projection_on_plane" ->
            LET ok == Kwargs(rest, {"marker", "segment", "axes"}, {})
            IN  Call("projection_on_plane_constraint", ok,
                     IF ok THEN projection_on_plane_constraint(
                                    p, ph, sel.X, rest.marker, rest.segment, rest.axes)
                     ELSE Raised(""))
      [] branch = "track_q" ->
            LET ok == Kwargs(rest, {"data_to_track"}, {"states_idx"})
            IN  Call("q_to_match", ok,
                     IF ok THEN q_to_match(p, ph, sel.t, sel.X, rest.data_to_track,
                                    IF "states_idx" \in DOMAIN rest
                                    THEN rest.states_idx ELSE <<>>)
                     ELSE Raised(""))
      [] branch = "proportional_q" ->
            LET ok == Kwargs(rest, {"first_dof", "second_dof", "coef"}, {})
            IN  Call("proportional_variable", ok,
                     IF ok THEN proportional_variable(p, ph, "X", sel.X, ph.nx,
                                    rest.first_dof, rest.second_dof, rest.coef)
                     ELSE Raised(""))
      [] branch = "proportional_control" ->
            IF is_last_node(instant, ph) THEN NoControl
            ELSE LET ok == Kwargs(rest, {"first_dof", "second_dof", "coef"}, {})
                 IN  Call("proportional_variable", ok,
                          IF ok THEN proportional_variable(p, ph, "U", sel.U, ph.nu,
                                         rest.first_dof, rest.second_dof, rest.coef)
                          ELSE Raised(""))
      [] branch = "contact_force_greater_than" ->
            IF is_last_node(instant, ph) THEN NoControl
            ELSE LET ok == Kwargs(rest, {"idx", "boundary"}, {})
                 IN  Call("contact_force_inequality", ok,
                          IF ok THEN contact_force_inequality(p, ph, sel.X, sel.U,
                                         "GREATER_THAN", rest.idx, rest.boundary)
                          ELSE Raised(""))
      [] branch = "contact_force_lesser_than" ->
            IF is_last_node(instant, ph) THEN NoControl
            ELSE LET ok == Kwargs(rest, {"idx", "boundary"}, {})
                 IN  Call("contact_force_inequality", ok,
                          IF ok THEN contact_force_inequality(p, ph, sel.X, sel.U,
                                         "LESSER_THAN", rest.idx, rest.boundary)
                          ELSE Raised(""))
      [] branch = "non_slipping" ->
            IF is_last_node(instant, ph) THEN NoControl
            ELSE LET ok == Kwargs(rest, {"normal_component_idx",
                                         "tangential_component_idx",
                                         "static_friction_coefficient"}, {})
                 IN  Call("non_slipping", ok,
                          IF ok THEN non_slipping(p, ph, sel.X, sel.U,
                                         rest.normal_component_idx,
                                         rest.tangential_component_idx,
                                         rest.static_friction_coefficient)
                          ELSE Raised(""))
      [] branch = "custom" ->
            IF "function" \notin DOMAIN rest THEN Call("", TRUE, Raised("KeyError"))
            ELSE Call("function", TRUE, custom_function(rest.function, p, sel.X, sel.U))
      [] OTHER ->
            Call("", TRUE, Raised(NotValidMsg))

\* func(ocp, nlp, x, u, **constraint) made while processing unit: the callable,
\* the slices and the keyword arguments it receives
func_call(unit, func, x, u, kwargs) ==
    [unit |-> unit, func |-> func, x |-> x, u |-> u, kwargs |-> kwargs]

\* Variant: "function" stays in the descriptor that is forwarded
consumed_keeps_function(branch, rest) == rest

\* The descriptor as the branch leaves it: the custom branch deletes "function"
consumed(branch, rest) ==
    IF branch = "custom" /\ "function" \in DOMAIN rest
    THEN Del(rest, {"function"}) ELSE rest

\* One iteration of `for constraint in nlp["constraints"]` on descriptor i of
\* phase p; acc is ocp and the descriptor list as the previous iterations left them
constraint_step(p, i, acc) ==
    LET ph == nlp[p]
        constraint == acc.constraints[i]
        unit == Len(acc.units) + 1
        entry == [call |-> calls + 1, op |-> "constraint", p |-> p, idx |-> i,
                  desc |-> <<constraint>>]
    IN  IF ~({"instant", "type"} \subseteq DOMAIN constraint)
        THEN [acc EXCEPT
                !.raised = "KeyError",
                !.units = Append(@, entry @@ [branch |-> "", builder |-> "",
                                              X |-> <<>>, U |-> <<>>,
                                              raised |-> "KeyError"])]
        ELSE
        LET sel == get_instant(ph, constraint.instant)
            _type == constraint.type
            instant == constraint.instant
            rest == Del(constraint, {"instant", "type"})
            branch == type_branch(_type)
            res == dispatch(p, ph, branch, instant, rest, sel)
        IN  [constraints |-> [acc.constraints EXCEPT ![i] = consumed(branch, rest)],
             g |-> vertcat(acc.g, res.g),
             min |-> acc.min \o res.min,
             max |-> acc.max \o res.max,
             gOwner |-> acc.gOwner \o Repeat(unit, Len(res.g)),
             bOwner |-> acc.bOwner \o Repeat(unit, Len(res.min)),
             units |-> Append(acc.units,
                              entry @@ [branch |-> branch, builder |-> res.builder,
                                        X |-> sel.X, U |-> sel.U,
                                        raised |-> res.raised]),
             called |-> IF res.builder = "function"
                        THEN Append(acc.called,
                                    func_call(unit, rest.function, sel.X, sel.U,
                                              consumed(branch, rest)))
                        ELSE acc.called,
             raised |-> res.raised,
             named |-> IF branch = "else" THEN <<rest>> ELSE <<>>]

\* The loop of add_constraints from descriptor i on; an exception ends it
RECURSIVE constraint_loop(_, _, _)
constraint_loop(p, i, acc) ==
    IF acc.raised # "" \/ i > Len(acc.constraints) THEN acc
    ELSE constraint_loop(p, i + 1, constraint_step(p, i, acc))

\* Variant: no test for None, the for loop is entered whatever nlp["constraints"] is
constraints_added_unguarded(p) ==
    LET acc0 == [constraints |-> IF nlp[p].constraints = <<>> THEN <<>>
                                 ELSE nlp[p].constraints[1],
                 g |-> g, min |-> g_bounds.min, max |-> g_bounds.max,
                 gOwner |-> gOwner, bOwner |-> bOwner, units |-> units,
                 called |-> called, raised |-> "", named |-> <<>>]
    IN  IF nlp[p].constraints = <<>> THEN [acc0 EXCEPT !.raised = "TypeError"]
        ELSE constraint_loop(p, 1, acc0)

\* ocp and the descriptor list of phase p when add_constraints returns or raises
constraints_added(p) ==
    LET acc0 == [constraints |-> IF nlp[p].constraints = <<>> THEN <<>>
                                 ELSE nlp[p].constraints[1],
                 g |-> g, min |-> g_bounds.min, max |-> g_bounds.max,
                 gOwner |-> gOwner, bOwner |-> bOwner, units |-> units,
                 called |-> called, raised |-> "", named |-> <<>>]
    IN  \* if nlp["constraints"] is None: return
        IF nlp[p].constraints = <<>> THEN acc0 ELSE constraint_loop(p, 1, acc0)

add_constraints(p) ==
    /\ calls < MaxCalls
    /\ p \in DOMAIN nlp
    /\ \E acc \in {constraints_added(p)} :
           /\ nlp' = [nlp EXCEPT ![p].constraints =
                        IF @ = <<>> THEN @ ELSE <<acc.constraints>>]
           /\ g' = acc.g
           /\ g_bounds' = [min |-> acc.min, max |-> acc.max]
           /\ gOwner' = acc.gOwner
           /\ bOwner' = acc.bOwner
           /\ units' = acc.units
           /\ called' = acc.called
           /\ last' = [op |-> "add_constraints", p |-> p, raised |-> acc.raised,
                       named |-> acc.named, g0 |-> Len(g),
                       min0 |-> Len(g_bounds.min), max0 |-> Len(g_bounds.max),
                       units0 |-> Len(units)]
    /\ calls' = calls + 1
    /\ UNCHANGED <<is_cyclic_constraint, threads, serialized, fatigue_vars>>

(***************************************************************************)
(* Constraint.continuity_constraint(ocp)                                   *)
(***************************************************************************)
NbPhases == Cardinality(DOMAIN nlp)

\* The messages of the two RuntimeError of continuity_constraint
PhaseMismatchMsg == "Phase constraints without same nx is not supported yet"
CyclicMismatchMsg == "Cyclic constraint without same nx is not supported yet"

\* What one step of a pass appends: rows for ocp.g, bounds, or an exception
Block(op, p, idx, rows, mins, maxs) ==
    [op |-> op, p |-> p, idx |-> idx, raised |-> "",
     g |-> rows, min |-> mins, max |-> maxs]
Failure(op, p, idx, msg) ==
    [op |-> op, p |-> p, idx |-> idx, raised |-> msg,
     g |-> <<>>, min |-> <<>>, max |-> <<>>]

\* Variant: the integrated state is compared with X[k] instead of X[k + 1]
intra_phase_block_same_node(p, k) ==
    Block("intra", p, k,
          [j \in 1..nlp[p].nx |-> Sub(Xf(p, k, j - 1), XVar(p, k, j - 1))],
          Repeat(Fin(0), nlp[p].nx), Repeat(Fin(0), nlp[p].nx))

\* Shooting interval k of phase p: end_node - nlp["X"][k + 1], nx bounds of 0
intra_phase_block(p, k) ==
    Block("intra", p, k,
          [j \in 1..nlp[p].nx |-> Sub(Xf(p, k, j - 1), XVar(p, k + 1, j - 1))],
          Repeat(Fin(0), nlp[p].nx), Repeat(Fin(0), nlp[p].nx))

\* for nlp in ocp.nlp: for k in range(nlp["ns"]), from phase p on
RECURSIVE intra_phase(_)
intra_phase(p) ==
    IF p >= NbPhases THEN <<>>
    ELSE [k \in 1..nlp[p].ns |-> intra_phase_block(p, k - 1)] \o intra_phase(p + 1)

\* Variant: the nx of a pair are compared after its rows were appended
RECURSIVE inter_phase_late_check(_)
inter_phase_late_check(i) ==
    IF i >= NbPhases - 1 THEN <<>>
    ELSE << Block("inter", i, i,
                  [j \in 1..nlp[i].nx |->
                      Sub(XVar(i, nlp[i].ns, j - 1), XVar(i + 1, 0, j - 1))],
                  Repeat(Fin(0), nlp[i].nx), Repeat(Fin(0), nlp[i].nx)) >>
         \o (IF nlp[i].nx # nlp[i + 1].nx
             THEN << Failure("inter", i, i, PhaseMismatchMsg) >>
             ELSE inter_phase_late_check(i + 1))

\* Variant: the first state of phase i is used instead of its last one
RECURSIVE inter_phase_first_state(_)
inter_phase_first_state(i) ==
    IF i >= NbPhases - 1 THEN <<>>
    ELSE IF nlp[i].nx # nlp[i + 1].nx
    THEN << Failure("inter", i, i, PhaseMismatchMsg) >>
    ELSE << Block("inter", i, i,
                  [j \in 1..nlp[i].nx |->
                      Sub(XVar(i, 0, j - 1), XVar(i + 1, 0, j - 1))],
                  Repeat(Fin(0), nlp[i].nx), Repeat(Fin(0), nlp[i].nx)) >>
         \o inter_phase_first_state(i + 1)

\* for i in range(len(ocp.nlp) - 1), from pair i on; a mismatch raises
RECURSIVE inter_phase(_)
inter_phase(i) ==
    IF i >= NbPhases - 1 THEN <<>>
    ELSE IF nlp[i].nx # nlp[i + 1].nx
    THEN << Failure("inter", i, i, PhaseMismatchMsg) >>
    ELSE << Block("inter", i, i,
                  [j \in 1..nlp[i].nx |->
                      Sub(XVar(i, nlp[i].ns, j - 1), XVar(i + 1, 0, j - 1))],
                  Repeat(Fin(0), nlp[i].nx), Repeat(Fin(0), nlp[i].nx)) >>
         \o inter_phase(i + 1)

\* Variant: the whole states are compared (no [1:] slice)
cyclic_all_components ==
    LET first == 0
        final == NbPhases - 1
    IN  IF ~is_cyclic_constraint THEN <<>>
        ELSE IF nlp[first].nx # nlp[final].nx
        THEN << Failure("cyclic", final, 0, CyclicMismatchMsg) >>
        ELSE << Block("cyclic", final, 0,
                      [j \in 1..nlp[final].nx |->
                          Sub(XVar(final, nlp[final].ns, j - 1), XVar(first, 0, j - 1))],
                      Repeat(Fin(0), nlp[first].nx), Repeat(Fin(0), nlp[first].nx)) >>

\* if ocp.is_cyclic_constraint: X[-1][1:] of the last phase minus X[0][1:] of
\* the first one, then one bound pair per state of the first phase
cyclic ==
    LET first == 0
        final == NbPhases - 1
    IN  IF ~is_cyclic_constraint THEN <<>>
        ELSE IF nlp[first].nx # nlp[final].nx
        THEN << Failure("cyclic", final, 0, CyclicMismatchMsg) >>
        ELSE << Block("cyclic", final, 0,
                      [j \in 1..(nlp[final].nx - 1) |->
                          Sub(XVar(final, nlp[final].ns, j), XVar(first, 0, j))],
                      Repeat(Fin(0), nlp[first].nx), Repeat(Fin(0), nlp[first].nx)) >>

HasFailure(blocks) == \E b \in DOMAIN blocks : blocks[b].raised # ""

\* The steps of one call in program order: the three passes, cut at an exception
continuity_blocks ==
    LET inter == inter_phase(0)
    IN  intra_phase(0) \o inter \o (IF HasFailure(inter) THEN <<>> ELSE cyclic)

continuity_constraint ==
    /\ calls < MaxCalls
    /\ \E blocks \in {continuity_blocks} :
        LET n == Len(blocks)
            unit(b) == Len(units) + b
        IN  /\ g' = vertcat(g, Flatten([b \in 1..n |-> blocks[b].g]))
            /\ g_bounds' = [min |-> g_bounds.min \o Flatten([b \in 1..n |-> blocks[b].min]),
                            max |-> g_bounds.max \o Flatten([b \in 1..n |-> blocks[b].max])]
            /\ gOwner' = gOwner \o Flatten([b \in 1..n |->
                                     Repeat(unit(b), Len(blocks[b].g))])
            /\ bOwner' = bOwner \o Flatten([b \in 1..n |->
                                     Repeat(unit(b), Len(blocks[b].min))])
            /\ units' = units \o [b \in 1..n |->
                             [call |-> calls + 1, op |-> blocks[b].op, p |-> blocks[b].p,
                              idx |-> blocks[b].idx, desc |-> <<>>, branch |-> "",
                              builder |-> "", X |-> <<>>, U |-> <<>>,
                              raised |-> blocks[b].raised]]
            /\ last' = [op |-> "continuity_constraint", p |-> 0,
                        raised |-> IF HasFailure(blocks) THEN blocks[n].raised ELSE "",
                        named |-> <<>>, g0 |-> Len(g),
                        min0 |-> Len(g_bounds.min), max0 |-> Len(g_bounds.max),
                        units0 |-> Len(units)]
    /\ calls' = calls + 1
    /\ UNCHANGED <<nlp, is_cyclic_constraint, called, threads, serialized, fatigue_vars>>

(***************************************************************************)
(* Two threads on one ocp: thread "A" calls add_constraints(ocp, nlp[0]),  *)
(* thread "B" calls continuity_constraint(ocp).  A thread can be switched  *)
(* out between the read of ocp.g and the store of the vertcat of           *)
(* `ocp.g = vertcat(ocp.g, rows)`, and between any two list appends.       *)
(***************************************************************************)
Threads == {"A", "B"}

Idle == [pc |-> "idle", blocks |-> <<>>, tmp |-> [g |-> <<>>, owner |-> <<>>],
         j |-> 0, unit |-> 0]

\* The blocks add_constraints appends for phase p, one per descriptor, cut at an
\* exception (one block per descriptor: selectors that resolve to one node)
constraint_blocks(p) ==
    LET list == IF nlp[p].constraints = <<>> THEN <<>> ELSE nlp[p].constraints[1]
        blk(i) ==
            LET c == list[i]
                res == dispatch(p, nlp[p], type_branch(c.type), c.instant,
                                Del(c, {"instant", "type"}), get_instant(nlp[p], c.instant))
            IN  IF res.raised = ""
                THEN Block("constraint", p, i, res.g, res.min, res.max)
                ELSE Failure("constraint", p, i, res.raised)
    IN  [i \in 1..Len(list) |-> blk(i)]

MidCall(t) == threads[t].pc \notin {"idle", "done"}

\* Where a thread stands when blocks are the ones left: an exception ends the call
pc_at(blocks) ==
    IF blocks = <<>> \/ Head(blocks).raised # "" THEN "done" ELSE "read"

\* The thread enters its builder
thread_call(t) ==
    /\ threads[t].pc = "idle"
    /\ serialized => \A o \in Threads \ {t} : ~MidCall(o)
    /\ \E prog \in {IF t = "A" THEN constraint_blocks(0) ELSE continuity_blocks} :
           threads' = [threads EXCEPT ![t] = [Idle EXCEPT !.pc = pc_at(prog),
                                                         !.blocks = prog]]
    /\ calls' = calls + 1
    /\ UNCHANGED <<nlp, is_cyclic_constraint, g, g_bounds, gOwner, bOwner, units, last,
                   called, serialized, fatigue_vars>>

\* The thread evaluates ocp.g, the argument of vertcat (for a descriptor, after
\* the del of its keys)
thread_read(t) ==
    /\ threads[t].pc = "read"
    /\ LET b == Head(threads[t].blocks)
           d == nlp[b.p].constraints[1][b.idx]
       IN  /\ threads' = [threads EXCEPT ![t].pc = "write",
                                         ![t].tmp = [g |-> g, owner |-> gOwner],
                                         ![t].unit = Len(units) + 1]
           /\ units' = Append(units,
                   [call |-> calls, op |-> b.op, p |-> b.p, idx |-> b.idx,
                    desc |-> <<>>, branch |-> "", builder |-> "", X |-> <<>>, U |-> <<>>,
                    raised |-> "", thread |-> t, rows |-> Len(b.g), bounds |-> Len(b.min)])
           /\ nlp' = IF b.op = "constraint"
                     THEN [nlp EXCEPT ![b.p].constraints[1][b.idx] =
                              consumed(type_branch(d.type), Del(d, {"instant", "type"}))]
                     ELSE nlp
    /\ UNCHANGED <<is_cyclic_constraint, g, g_bounds, gOwner, bOwner, last, called,
                   serialized, calls, fatigue_vars>>

\* The thread stores the vertcat of what it read and its rows into ocp.g
thread_write(t) ==
    /\ threads[t].pc = "write"
    /\ LET b == Head(threads[t].blocks)
           left == Tail(threads[t].blocks)
       IN  /\ g' = vertcat(threads[t].tmp.g, b.g)
           /\ gOwner' = threads[t].tmp.owner \o Repeat(threads[t].unit, Len(b.g))
           /\ threads' = IF b.min = <<>>
                         THEN [threads EXCEPT ![t].pc = pc_at(left), ![t].blocks = left]
                         ELSE [threads EXCEPT ![t].pc = "min", ![t].j = 0]
    /\ UNCHANGED <<nlp, is_cyclic_constraint, g_bounds, bOwner, units, last, called,
                   serialized, calls, fatigue_vars>>

\* ocp.g_bounds.min.append(...)
thread_min(t) ==
    /\ threads[t].pc = "min"
    /\ LET b == Head(threads[t].blocks)
       IN  /\ g_bounds' = [g_bounds EXCEPT !.min = Append(@, b.min[threads[t].j + 1])]
           /\ bOwner' = Append(bOwner, threads[t].unit)
           /\ threads' = [threads EXCEPT ![t].pc = "max"]
    /\ UNCHANGED <<nlp, is_cyclic_constraint, g, gOwner, units, last, called,
                   serialized, calls, fatigue_vars>>

\* ocp.g_bounds.max.append(...), then the next bound pair or the next block
thread_max(t) ==
    /\ threads[t].pc = "max"
    /\ LET b == Head(threads[t].blocks)
           left == Tail(threads[t].blocks)
           j == threads[t].j + 1
       IN  /\ g_bounds' = [g_bounds EXCEPT !.max = Append(@, b.max[j])]
           /\ threads' = IF j = Len(b.min)
                         THEN [threads EXCEPT ![t].pc = pc_at(left), ![t].blocks = left,
                                              ![t].j = 0]
                         ELSE [threads EXCEPT ![t].pc = "min", ![t].j = j]
    /\ UNCHANGED <<nlp, is_cyclic_constraint, g, gOwner, bOwner, units, last, called,
                   serialized, calls, fatigue_vars>>

(***************************************************************************)
(* Problems (the inputs of the two entry points).                          *)
(***************************************************************************)
\* A descriptor of each Constraint.Type and one of an unknown type, at selector i
Descriptors(i) ==
    { [instant |-> i, type |-> "markers_to_match", first_marker |-> 0, second_marker |-> 1],
      [instant |-> i, type |-> "align_with_custom_rt", segment |-> 0, rt |-> 0],
      [instant |-> i, type |-> "projection_on_plane", marker |-> 0, segment |-> 0,
       axes |-> <<0, 2>>],
      [instant |-> i, type |-> "track_q", data_to_track |-> [shape |-> <<MaxNs + 1, MaxNx>>]],
      [instant |-> i, type |-> "proportional_q", first_dof |-> 0, second_dof |-> 1,
       coef |-> [kind |-> "int", v |-> 2]],
      [instant |-> i, type |-> "proportional_control", first_dof |-> 0, second_dof |-> 0,
       coef |-> [kind |-> "int", v |-> 2]],
      [instant |-> i, type |-> "contact_force_greater_than", idx |-> 0, boundary |-> 5],
      [instant |-> i, type |-> "contact_force_lesser_than", idx |-> 0, boundary |-> 5],
      [instant |-> i, type |-> "non_slipping", normal_component_idx |-> <<0>>,
       tangential_component_idx |-> <<1>>, static_friction_coefficient |-> 2],
      [instant |-> i, type |-> "custom", function |-> "append_per_node"],
      [instant |-> i, type |-> "custom", function |-> "leave_alone"],
      [instant |-> i, type |-> "not_a_type", idx |-> 0] }

\* The node selectors of a phase with ns shooting intervals
Instants(ns) == {InstantOf("START"), InstantOf("END"), InstantOf("ALL"), NodeOf(ns)}

\* Lists of at most n elements of S
RECURSIVE ListsUpTo(_, _)
ListsUpTo(S, n) ==
    IF n = 0 THEN {<<>>}
    ELSE LET shorter == ListsUpTo(S, n - 1)
         IN  shorter \cup {Append(l, d) : l \in {s \in shorter : Len(s) = n - 1}, d \in S}

\* nlp["constraints"]: None (<<>>) or a list (<<list>>)
NoConstraints == <<>>
Constraints(list) == <<list>>

Start(phases, cyc) ==
    /\ nlp = phases
    /\ is_cyclic_constraint = cyc
    /\ g = <<>>
    /\ g_bounds = [min |-> <<>>, max |-> <<>>]
    /\ gOwner = <<>>
    /\ bOwner = <<>>
    /\ units = <<>>
    /\ called = <<>>
    /\ threads = [t \in Threads |-> Idle]
    /\ serialized = TRUE
    /\ agg = NoAggregator
    /\ ftrace = <<>>
    /\ registry = <<>>
    /\ last = [op |-> "", p |-> 0, raised |-> "", named |-> <<>>, g0 |-> 0,
               min0 |-> 0, max0 |-> 0, units0 |-> 0]
    /\ calls = 0

\* Multi-phase problems; every phase declares one contact-force descriptor
ContinuityPhases ==
    [ns : 1..MaxNs, nx : 1..MaxNx, nu : {1}, model : {"unchecked"}, expand : {MaxNx},
     constraints : {Constraints(<<[instant |-> InstantOf("START"),
                                   type |-> "contact_force_greater_than",
                                   idx |-> 0, boundary |-> 5]>>)}]

Init ==
    \E n \in 1..MaxPhases : \E phases \in [0..(n - 1) -> ContinuityPhases] :
        \E cyc \in BOOLEAN : Start(phases, cyc)

Next == continuity_constraint \/ \E p \in DOMAIN nlp : add_constraints(p)

Spec == Init /\ [][Next]_vars

\* Problems of MaxChain phases with one shooting interval each
MaxChain == 3

ChainPhases ==
    [ns : {1}, nx : 1..MaxNx, nu : {1}, model : {"unchecked"}, expand : {MaxNx},
     constraints : {Constraints(<<[instant |-> InstantOf("START"),
                                   type |-> "contact_force_greater_than",
                                   idx |-> 0, boundary |-> 5]>>)}]

InitChain ==
    \E phases \in [0..(MaxChain - 1) -> ChainPhases] :
        \E cyc \in BOOLEAN : Start(phases, cyc)

SpecChain == InitChain /\ [][Next]_vars

\* One-phase problems: no list, or any list of at most MaxDescr descriptors
\* that share a node selector
DispatchPhases ==
    [ns : {MaxNs}, nx : {MaxNx}, nu : {1}, model : {"unchecked"}, expand : {MaxNx},
     constraints : {NoConstraints}
        \cup {Constraints(l) : l \in UNION {ListsUpTo(Descriptors(i), MaxDescr) :
                                               i \in Instants(MaxNs)}}]

InitDispatch == \E phases \in [{0} -> DispatchPhases] : Start(phases, FALSE)

NextDispatch == \E p \in DOMAIN nlp : add_constraints(p)

SpecDispatch == InitDispatch /\ [][NextDispatch]_vars

\* Marker, segment and RT descriptors at selector i, with indices inside and
\* just past the counts of the model
GeometryDescriptors(i) ==
    { [instant |-> i, type |-> "markers_to_match", first_marker |-> a, second_marker |-> b] :
        a \in {0, nbMarkers}, b \in {1, nbMarkers} }
    \cup { [instant |-> i, type |-> "align_with_custom_rt", segment |-> a, rt |-> b] :
        a \in {0, nbSegment}, b \in {0, nbRTs} }
    \cup { [instant |-> i, type |-> "projection_on_plane", marker |-> a, segment |-> b,
            axes |-> <<0, 2>>] :
        a \in {0, nbMarkers}, b \in {0, nbSegment} }

GeometryPhases ==
    [ns : {MaxNs}, nx : {MaxNx}, nu : {1}, model : ModelAccess, expand : {MaxNx},
     constraints : {Constraints(l) :
                        l \in UNION {ListsUpTo(GeometryDescriptors(i), MaxDescr) :
                                        i \in {InstantOf("START"), InstantOf("ALL")}}}]

InitGeometry == \E phases \in [{0} -> GeometryPhases] : Start(phases, FALSE)

SpecGeometry == InitGeometry /\ [][NextDispatch]_vars

\* track_q descriptors at selector i for a phase of MaxNs intervals and MaxNx
\* states: data of the expected and of other shapes, states_idx absent or given
TrackingDescriptors(i) ==
    { [instant |-> i, type |-> "track_q", data_to_track |-> [shape |-> <<r, c>>]] :
        r \in {MaxNs, MaxNs + 1}, c \in {1, MaxNx} }
    \cup { [instant |-> i, type |-> "track_q", data_to_track |-> [shape |-> <<r, c>>],
            states_idx |-> sidx] :
        r \in {MaxNs, MaxNs + 1}, c \in {1, 2},
        sidx \in {<<0>>, <<1>>, <<0, 1>>, <<MaxNx>>} }

TrackingPhases ==
    [ns : {MaxNs}, nx : {MaxNx}, nu : {1}, model : {"unchecked"}, expand : {MaxNx},
     constraints : {Constraints(l) :
                        l \in UNION {ListsUpTo(TrackingDescriptors(i), MaxDescr) :
                                        i \in {InstantOf("START"), InstantOf("ALL")}}}]

InitTracking == \E phases \in [{0} -> TrackingPhases] : Start(phases, FALSE)

SpecTracking == InitTracking /\ [][NextDispatch]_vars

\* proportional_q and proportional_control descriptors at selector i for a
\* phase of MaxNx states and one control: dofs inside and just past the rows of
\* the variable, a coef of every type of CoefKinds
ProportionalDescriptors(i) ==
    { [instant |-> i, type |-> "proportional_q", first_dof |-> 0, second_dof |-> b,
       coef |-> [kind |-> k, v |-> 2]] : b \in {1, MaxNx}, k \in CoefKinds }
    \cup { [instant |-> i, type |-> "proportional_control", first_dof |-> 0,
            second_dof |-> b, coef |-> [kind |-> k, v |-> 2]] :
                b \in {0, 1}, k \in CoefKinds }

ProportionalPhases ==
    [ns : {MaxNs}, nx : {MaxNx}, nu : {1}, model : {"unchecked"}, expand : {MaxNx},
     constraints : {Constraints(l) :
                        l \in UNION {ListsUpTo(ProportionalDescriptors(i), MaxDescr) :
                                        i \in {InstantOf("START"), InstantOf("ALL")}}}]

InitProportional == \E phases \in [{0} -> ProportionalPhases] : Start(phases, FALSE)

SpecProportional == InitProportional /\ [][NextDispatch]_vars

\* Phases whose q_mapping expands a slice to fewer, as many or more rows than
\* the slice has, with proportional descriptors whose second dof is the last
\* row of the variable or the one past it
MappedDescriptors(i) ==
    { [instant |-> i, type |-> "proportional_q", first_dof |-> 0, second_dof |-> b,
       coef |-> [kind |-> "int", v |-> 2]] : b \in {MaxNx - 1, MaxNx} }
    \cup { [instant |-> i, type |-> "proportional_control", first_dof |-> 0,
            second_dof |-> b, coef |-> [kind |-> "float", v |-> 2]] : b \in {0, 1} }

MappedPhases ==
    [ns : {MaxNs}, nx : {MaxNx}, nu : {1}, model : {"unchecked"},
     expand : {MaxNx - 1, MaxNx, MaxNx + 1},
     constraints : {Constraints(l) :
                        l \in UNION {ListsUpTo(MappedDescriptors(i), MaxDescr) :
                                        i \in {InstantOf("START"), InstantOf("ALL")}}}]

InitMapped == \E phases \in [{0} -> MappedPhases] : Start(phases, FALSE)

SpecMapped == InitMapped /\ [][NextDispatch]_vars

\* Descriptors at selector i that end add_constraints, one per cause, and one
\* that does not
RaisingDescriptors(i) ==
    { [instant |-> i, type |-> "markers_to_match", first_marker |-> 0, second_marker |-> 1],
      [instant |-> i, type |-> "markers_to_match", first_marker |-> 0,
       second_marker |-> nbMarkers],
      [instant |-> i, type |-> "projection_on_plane", marker |-> 0, segment |-> 0,
       axes |-> <<0, 3>>],
      [instant |-> i, type |-> "track_q", data_to_track |-> [shape |-> <<MaxNs, MaxNx>>]],
      [instant |-> i, type |-> "proportional_q", first_dof |-> 0, second_dof |-> 1,
       coef |-> [kind |-> "str", v |-> 2]],
      [instant |-> i, type |-> "contact_force_greater_than", idx |-> 0, boundary |-> 5],
      [instant |-> i, type |-> "not_a_type", idx |-> 0] }

RaisingPhases ==
    [ns : {MaxNs}, nx : {MaxNx}, nu : {1}, model : {"unchecked"}, expand : {MaxNx},
     constraints : {Constraints(l) :
                        l \in UNION {ListsUpTo(RaisingDescriptors(i), MaxDescr) :
                                        i \in {InstantOf("START"), InstantOf("END")}}}]

InitRaising == \E phases \in [{0} -> RaisingPhases] : Start(phases, FALSE)

SpecRaising == InitRaising /\ [][NextDispatch]_vars

\* Multi-phase problems whose phases declare no list, an empty list or one
\* contact-force descriptor
SparsePhases ==
    [ns : 1..MaxNs, nx : {MaxNx}, nu : {1}, model : {"unchecked"}, expand : {MaxNx},
     constraints : {NoConstraints, Constraints(<<>>),
                    Constraints(<<[instant |-> InstantOf("START"),
                                   type |-> "contact_force_greater_than",
                                   idx |-> 0, boundary |-> 5]>>)}]

InitSparse ==
    \E n \in 1..MaxPhases : \E phases \in [0..(n - 1) -> SparsePhases] :
        Start(phases, FALSE)

SpecSparse == InitSparse /\ [][Next]_vars

\* custom descriptors at selector i: a callable that appends or one that leaves
\* ocp alone, with no, one or two parameters of its own
CustomDescriptors(i) ==
    { [instant |-> i, type |-> "custom", function |-> f] :
        f \in {"append_per_node", "leave_alone"} }
    \cup { [instant |-> i, type |-> "custom", function |-> f, gain |-> 1] :
        f \in {"append_per_node", "leave_alone"} }
    \cup { [instant |-> i, type |-> "custom", function |-> f, gain |-> 1, axis |-> 0] :
        f \in {"append_per_node", "leave_alone"} }

CustomPhases ==
    [ns : {MaxNs}, nx : {MaxNx}, nu : {1}, model : {"unchecked"}, expand : {MaxNx},
     constraints : {Constraints(l) :
                        l \in UNION {ListsUpTo(CustomDescriptors(i), MaxDescr) :
                                        i \in Instants(MaxNs)}}]

InitCustom == \E phases \in [{0} -> CustomPhases] : Start(phases, FALSE)

SpecCustom == InitCustom /\ [][NextDispatch]_vars

\* One phase of one interval and two states with a markers_to_match descriptor
\* at the first node, shared by the two threads, serialized by the caller or not
SharedPhases ==
    [ns : {1}, nx : {2}, nu : {1}, model : {"unchecked"}, expand : {MaxNx},
     constraints : {Constraints(<<[instant |-> InstantOf("START"),
                                   type |-> "markers_to_match",
                                   first_marker |-> 0, second_marker |-> 1]>>)}]

InitThreads ==
    \E phases \in [{0} -> SharedPhases] : \E cyc \in BOOLEAN : \E ser \in BOOLEAN :
        /\ nlp = phases
        /\ is_cyclic_constraint = cyc
        /\ g = <<>>
        /\ g_bounds = [min |-> <<>>, max |-> <<>>]
        /\ gOwner = <<>>
        /\ bOwner = <<>>
        /\ units = <<>>
        /\ called = <<>>
        /\ last = [op |-> "", p |-> 0, raised |-> "", named |-> <<>>, g0 |-> 0,
                   min0 |-> 0, max0 |-> 0, units0 |-> 0]
        /\ threads = [t \in Threads |-> Idle]
        /\ serialized = ser
        /\ agg = NoAggregator
        /\ ftrace = <<>>
        /\ registry = <<>>
        /\ calls = 0

NextThreads ==
    \E t \in Threads :
        \/ thread_call(t)
        \/ thread_read(t)
        \/ thread_write(t)
        \/ thread_min(t)
        \/ thread_max(t)

SpecThreads == InitThreads /\ [][NextThreads]_vars

(***************************************************************************)
(* MultiFatigueModel (fatigue_dynamics.py).  A dict is the sequence of its *)
(* [key, value] entries in insertion order; FatigueModel instances are     *)
(* numbered.                                                               *)
(***************************************************************************)
MaxChannels == 2
MaxRequests == 2

\* d[key] = value: a key already in the dict keeps its place
dict_set(d, key, value) ==
    IF \E k \in DOMAIN d : d[k].key = key
    THEN [k \in DOMAIN d |-> IF d[k].key = key THEN [key |-> key, value |-> value]
                             ELSE d[k]]
    ELSE Append(d, [key |-> key, value |-> value])

\* d[key] of a dict that holds key
dict_get(d, key) == d[CHOOSE k \in DOMAIN d : d[k].key = key].value

\* list(d.keys())
dict_keys(d) == [k \in DOMAIN d |-> d[k].key]

\* seq[i] of Python: positions count from 0, negative ones from the end
py_in_range(seq, i) == -Len(seq) <= i /\ i < Len(seq)
py_index(seq, i) == IF i >= 0 THEN seq[i + 1] ELSE seq[Len(seq) + i + 1]

\* A key of self.models: a channel name for a dict, a position for a list
KeyName(name) == [name |-> name]
KeyIndex(index) == [index |-> index]

\* Variant: every named channel is given the first model
RECURSIVE model_tp_first(_, _, _, _)
model_tp_first(suffix, model, i, model_tp) ==
    IF i > Len(suffix) THEN model_tp
    ELSE model_tp_first(suffix, model, i + 1,
                        IF suffix[i] # ""
                        THEN dict_set(model_tp, suffix[i], <<model[1]>>)
                        ELSE dict_set(model_tp, suffix[i], model))

\* The loop of __init__ over enumerate(self.suffix()) from position i on
RECURSIVE model_tp_from(_, _, _, _)
model_tp_from(suffix, model, i, model_tp) ==
    IF i > Len(suffix) THEN model_tp
    ELSE model_tp_from(suffix, model, i + 1,
                       IF suffix[i] # ""
                       THEN dict_set(model_tp, suffix[i], <<model[i]>>)
                       ELSE dict_set(model_tp, suffix[i], model))

\* MultiFatigueModel.__init__(model, ...) of a class cls whose suffix() is suffix:
\* a dict keyed by the names of suffix() if there are any, else the list itself
MultiFatigueModel_init(cls, suffix, model) ==
    IF suffix # <<>>
    THEN [cls |-> cls, suffix |-> suffix, isdict |-> TRUE,
          models |-> model_tp_from(suffix, model, 1, <<>>)]
    ELSE [cls |-> cls, suffix |-> suffix, isdict |-> FALSE, models |-> model]

\* MultiFatigueModel.shape
shape == Len(agg.models)

\* Variant: the keys are taken in reverse order
convert_to_models_key_reversed(item) ==
    IF agg.isdict
    THEN IF py_in_range(dict_keys(agg.models), item)
         THEN [raised |-> "",
               key |-> <<KeyName(py_index(dict_keys(agg.models), -1 - item))>>]
         ELSE [raised |-> "IndexError", key |-> <<>>]
    ELSE [raised |-> "", key |-> <<KeyIndex(item)>>]

\* MultiFatigueModel._convert_to_models_key(item)
convert_to_models_key(item) ==
    IF agg.isdict
    THEN IF py_in_range(dict_keys(agg.models), item)
         THEN [raised |-> "", key |-> <<KeyName(py_index(dict_keys(agg.models), item))>>]
         ELSE [raised |-> "IndexError", key |-> <<>>]
    ELSE [raised |-> "", key |-> <<KeyIndex(item)>>]

\* self.models[self._convert_to_models_key(index)], as the aggregators with
\* several channels and the flat-list ones delegate a request for index
models_at(index) ==
    LET k == convert_to_models_key(index)
    IN  IF k.raised # "" THEN [raised |-> k.raised, key |-> <<>>, value |-> <<>>]
        ELSE IF agg.isdict
        THEN [raised |-> "", key |-> k.key,
              value |-> dict_get(agg.models, k.key[1].name)]
        ELSE IF py_in_range(agg.models, index)
        THEN [raised |-> "", key |-> k.key, value |-> <<py_index(agg.models, index)>>]
        ELSE [raised |-> "IndexError", key |-> <<>>, value |-> <<>>]

\* MultiFatigueInterface: self.models["fatigue"], whatever index is
interface_model(index) ==
    [raised |-> "", key |-> <<KeyName("fatigue")>>,
     value |-> dict_get(agg.models, "fatigue")]

\* The model a default_bounds or default_initial_guess request is delegated to
delegate(index) ==
    IF agg.cls = "MultiFatigueInterface" THEN interface_model(index)
    ELSE models_at(index)

\* One entry of the history of requests
Request(op, index, res, visited) ==
    [op |-> op, index |-> index, shape |-> shape, raised |-> res.raised,
     key |-> res.key, value |-> res.value, visited |-> visited]

Constructed == agg.cls # ""

\* default_bounds(index, variable_type)
default_bounds(index) ==
    /\ Constructed
    /\ calls < MaxRequests
    /\ ftrace' = Append(ftrace, Request("default_bounds", index, delegate(index), <<>>))
    /\ calls' = calls + 1
    /\ UNCHANGED <<agg, registry, ocp_vars>>

\* default_initial_guess(index, variable_type)
default_initial_guess(index) ==
    /\ Constructed
    /\ calls < MaxRequests
    /\ ftrace' = Append(ftrace,
                        Request("default_initial_guess", index, delegate(index), <<>>))
    /\ calls' = calls + 1
    /\ UNCHANGED <<agg, registry, ocp_vars>>

\* The term a FatigueModel adds to the state derivative; dxdt is the sequence of
\* its terms
Term(suffix, index, model, states, controls) ==
    [suffix |-> suffix, index |-> index, model |-> model, states |-> states,
     controls |-> controls]
BaseDynamics == Term("base", 0, <<>>, "", "")
Derivatives == {<<>>, <<BaseDynamics>>}
StateHandles == {"x1"}
ControlHandles == {"u1"}

\* self._dynamics_per_suffix(dxdt, suffix, nlp, index, states, controls), m being
\* the model the aggregator looks up: the model adds its term to dxdt
dynamics_per_suffix(m, dxdt, suffix, index, states, controls) ==
    IF m.raised # "" THEN [raised |-> m.raised, dxdt |-> dxdt]
    ELSE [raised |-> "",
          dxdt |-> Append(dxdt, Term(suffix, index, m.value, states, controls))]

\* One call of the hook as the history keeps it
HookCall(suffix, dxdt, index, states, controls, res) ==
    [suffix |-> suffix, dxdt |-> dxdt, index |-> index, states |-> states,
     controls |-> controls, raised |-> res.raised, returned |-> res.dxdt]

\* Variant: every channel is given the dxdt the aggregator was called with
RECURSIVE dynamics_loop_unchained(_, _, _, _, _, _, _, _)
dynamics_loop_unchained(suffix, m, k, dxdt, index, states, controls, hooks) ==
    IF k > Len(suffix) THEN [raised |-> "", dxdt |-> dxdt, hooks |-> hooks]
    ELSE LET first == IF hooks = <<>> THEN dxdt ELSE hooks[1].dxdt
             res == dynamics_per_suffix(m, first, suffix[k], index, states, controls)
             seen == Append(hooks,
                            HookCall(suffix[k], first, index, states, controls, res))
         IN  IF res.raised # ""
             THEN [raised |-> res.raised, dxdt |-> dxdt, hooks |-> seen]
             ELSE dynamics_loop_unchained(suffix, m, k + 1, res.dxdt, index, states,
                                          controls, seen)

\* The loop of MultiFatigueModel.dynamics over self.suffix() from position k on
RECURSIVE dynamics_loop(_, _, _, _, _, _, _, _)
dynamics_loop(suffix, m, k, dxdt, index, states, controls, hooks) ==
    IF k > Len(suffix) THEN [raised |-> "", dxdt |-> dxdt, hooks |-> hooks]
    ELSE LET res == dynamics_per_suffix(m, dxdt, suffix[k], index, states, controls)
             seen == Append(hooks,
                            HookCall(suffix[k], dxdt, index, states, controls, res))
         IN  IF res.raised # ""
             THEN [raised |-> res.raised, dxdt |-> dxdt, hooks |-> seen]
             ELSE dynamics_loop(suffix, m, k + 1, res.dxdt, index, states, controls,
                                seen)

\* MultiFatigueModel.dynamics(dxdt, nlp, index, states, controls) of an aggregator
\* whose suffix() is suffix and whose hook looks up m
MultiFatigueModel_dynamics(suffix, m, dxdt, index, states, controls) ==
    dynamics_loop(suffix, m, 1, dxdt, index, states, controls, <<>>)

\* MultiFatigueModel.dynamics(dxdt, nlp, index, states, controls): one call of
\* _dynamics_per_suffix per name of suffix(), none when suffix() is empty
dynamics(dxdt, index, states, controls) ==
    /\ Constructed
    /\ calls < MaxRequests
    /\ LET res == IF agg.suffix = <<>>
                  THEN [raised |-> "", key |-> <<>>, value |-> <<>>]
                  ELSE delegate(index)
           out == MultiFatigueModel_dynamics(agg.suffix, res, dxdt, index, states,
                                             controls)
       IN  ftrace' = Append(ftrace,
                            [op |-> "dynamics", index |-> index, shape |-> shape,
                             raised |-> out.raised, key |-> res.key,
                             value |-> res.value,
                             visited |-> [k \in DOMAIN out.hooks |->
                                             out.hooks[k].suffix],
                             dxdt |-> dxdt, states |-> states, controls |-> controls,
                             hooks |-> out.hooks, returned |-> out.dxdt])
    /\ calls' = calls + 1
    /\ UNCHANGED <<agg, registry, ocp_vars>>

\* Variant: the model is put in front of the list
add_in_front(fatigue) ==
    /\ Constructed
    /\ calls < MaxRequests
    /\ agg' = IF agg.isdict THEN agg ELSE [agg EXCEPT !.models = <<fatigue>> \o @]
    /\ ftrace' = Append(ftrace,
                        Request("add", 0,
                                [raised |-> IF agg.isdict THEN "AttributeError" ELSE "",
                                 key |-> <<>>, value |-> <<>>], <<>>))
    /\ calls' = calls + 1
    /\ UNCHANGED <<registry, ocp_vars>>

\* MultiFatigueModel.add(fatigue): self.models.append(fatigue); a dict has no
\* append
add(fatigue) ==
    /\ Constructed
    /\ calls < MaxRequests
    /\ agg' = IF agg.isdict THEN agg ELSE [agg EXCEPT !.models = Append(@, fatigue)]
    /\ ftrace' = Append(ftrace,
                        Request("add", 0,
                                [raised |-> IF agg.isdict THEN "AttributeError" ELSE "",
                                 key |-> <<>>, value |-> <<>>], <<>>))
    /\ calls' = calls + 1
    /\ UNCHANGED <<registry, ocp_vars>>

\* The channel names a class may declare, and the suffix() of the classes: no
\* name twice, at most MaxChannels names
ChannelNames == {"", "a", "b"}

RECURSIVE Suffixes(_)
Suffixes(n) ==
    IF n = 0 THEN {<<>>}
    ELSE LET shorter == Suffixes(n - 1)
         IN  shorter \cup {Append(sfx, name) :
                              sfx \in {x \in shorter : Len(x) = n - 1},
                              name \in ChannelNames}

DistinctSuffixes ==
    {sfx \in Suffixes(MaxChannels) :
        \A i, j \in DOMAIN sfx : i # j => sfx[i] # sfx[j]}

\* The aggregators after construction: name-keyed ones with one model per
\* channel, flat lists of up to MaxChannels models, the single-channel interface
Aggregators ==
    {MultiFatigueModel_init("named", sfx, [i \in DOMAIN sfx |-> i]) :
        sfx \in DistinctSuffixes \ {<<>>}}
    \cup {MultiFatigueModel_init("flat", <<>>, [i \in 1..n |-> i]) : n \in 0..MaxChannels}
    \cup {MultiFatigueModel_init("MultiFatigueInterface", <<"fatigue">>, <<1>>)}

InitFatigue ==
    /\ agg \in Aggregators
    /\ ftrace = <<>>
    /\ registry = <<>>
    /\ nlp = <<>>
    /\ is_cyclic_constraint = FALSE
    /\ g = <<>>
    /\ g_bounds = [min |-> <<>>, max |-> <<>>]
    /\ gOwner = <<>>
    /\ bOwner = <<>>
    /\ units = <<>>
    /\ called = <<>>
    /\ last = [op |-> "", p |-> 0, raised |-> "", named |-> <<>>, g0 |-> 0,
               min0 |-> 0, max0 |-> 0, units0 |-> 0]
    /\ threads = [t \in Threads |-> Idle]
    /\ serialized = TRUE
    /\ calls = 0

NextFatigue ==
    \/ \E index \in -1..MaxChannels : default_bounds(index)
    \/ \E index \in -1..MaxChannels : default_initial_guess(index)
    \/ \E dxdt \in Derivatives, index \in -1..MaxChannels, states \in StateHandles,
          controls \in ControlHandles : dynamics(dxdt, index, states, controls)
    \/ \E fatigue \in {shape + 1} : add(fatigue)

SpecFatigue == InitFatigue /\ [][NextFatigue]_vars

(***************************************************************************)
(* FatigueList and FatigueUniqueList (fatigue_dynamics.py).  The list      *)
(* classes they extend (OptionDict, UniquePerPhaseOptionList) are not part *)
(* of src/: the per-phase list is one slot per phase, an empty slot for a  *)
(* phase nothing was registered for.                                       *)
(***************************************************************************)
MaxRegistryCalls == 3

\* The model families (model_type()); both are single-channel interfaces
Families == {"muscles", "tau"}

\* What a caller hands to FatigueList.add: a bare FatigueModel or an aggregator
\* built beforehand (which carries its own state_only)
FatigueModels(id) ==
    {[bare |-> TRUE, family |-> f, id |-> id, state_only |-> FALSE] : f \in Families}
    \cup {[bare |-> FALSE, family |-> "muscles", id |-> id, state_only |-> TRUE]}

\* An aggregator of a family around the model numbered id
family_aggregator(family, id, state_only) ==
    [family |-> family, state_only |-> state_only,
     a |-> MultiFatigueModel_init("MultiFatigueInterface", <<"fatigue">>, <<id>>)]

\* model.multi_type(model, state_only=state_only)
multi_type(model, state_only) == family_aggregator(model.family, model.id, state_only)

\* FatigueUniqueList(suffix)
FatigueUniqueList_init(suffix) == [suffix |-> suffix, options |-> <<>>]

\* MultiFatigueModel(model=aggregator, state_only=None, phase=phase): suffix() of
\* the base class returns nothing, so self.models is the aggregator given
option(aggregator, phase) == [phase |-> phase, models |-> aggregator, merged |-> <<>>]

\* A second registration for a phase that holds an aggregator
Duplicate == {"rejected", "merged"}

\* FatigueUniqueList.add(model=aggregator, phase=phase): the slot of the phase
\* takes the aggregator; the phases before it that have no slot yet get an
\* empty one
FatigueUniqueList_add(lst, aggregator, phase, dup) ==
    LET padded == IF phase < Len(lst.options) THEN lst.options
                  ELSE [k \in 1..(phase + 1) |->
                          IF k <= Len(lst.options) THEN lst.options[k] ELSE <<>>]
    IN  IF padded[phase + 1] = <<>>
        THEN [raised |-> "",
              lst |-> [lst EXCEPT !.options =
                          [padded EXCEPT ![phase + 1] = <<option(aggregator, phase)>>]]]
        ELSE IF dup = "rejected"
        THEN [raised |-> "ValueError", lst |-> lst]
        ELSE [raised |-> "",
              lst |-> [lst EXCEPT !.options[phase + 1][1].merged =
                                      Append(@, aggregator)]]

\* Variant: the family entry is made anew on every add
family_entry_anew(family, suffix) ==
    dict_set(registry, family, FatigueUniqueList_init(suffix))

\* The family entry of FatigueList.add: made on the first add of the family
family_entry(family, suffix) ==
    IF \E k \in DOMAIN registry : registry[k].key = family
    THEN registry
    ELSE dict_set(registry, family, FatigueUniqueList_init(suffix))

\* FatigueList.add(model, index, state_only)
FatigueList_add(model, index, state_only, dup) ==
    /\ calls < MaxRegistryCalls
    /\ LET aggregator == IF model.bare THEN multi_type(model, state_only)
                         ELSE family_aggregator(model.family, model.id,
                                                model.state_only)
           entries == family_entry(aggregator.family, aggregator.a.suffix)
           res == FatigueUniqueList_add(dict_get(entries, aggregator.family),
                                        aggregator, index, dup)
       IN  /\ registry' = dict_set(entries, aggregator.family, res.lst)
           /\ ftrace' = Append(ftrace,
                               [op |-> "FatigueList.add", model |-> model,
                                index |-> index, state_only |-> state_only,
                                raised |-> res.raised])
    /\ calls' = calls + 1
    /\ UNCHANGED <<agg, ocp_vars>>

\* self.models["fatigue"] of a single-channel interface aggregator a
interface_lookup(a) == [raised |-> "", value |-> dict_get(a.models, "fatigue")]

\* One call elt.models.dynamics(dxdt, nlp, i, states, controls) as the history
\* keeps it
Visit(i, aggregator, dxdt, out) ==
    [index |-> i, aggregator |-> aggregator, dxdt |-> dxdt, raised |-> out.raised,
     returned |-> out.dxdt]

\* Variant: every aggregator is called with index 0
RECURSIVE unique_dynamics_index0(_, _, _, _, _, _)
unique_dynamics_index0(lst, i, dxdt, states, controls, visits) ==
    IF i >= Len(lst.options) THEN [raised |-> "", dxdt |-> dxdt, visits |-> visits]
    ELSE IF lst.options[i + 1] = <<>>
    THEN [raised |-> "AttributeError", dxdt |-> dxdt, visits |-> visits]
    ELSE LET aggregator == lst.options[i + 1][1].models
             out == MultiFatigueModel_dynamics(aggregator.a.suffix,
                                               interface_lookup(aggregator.a), dxdt, 0,
                                               states, controls)
             seen == Append(visits, Visit(0, aggregator, dxdt, out))
         IN  IF out.raised # ""
             THEN [raised |-> out.raised, dxdt |-> dxdt, visits |-> seen]
             ELSE unique_dynamics_index0(lst, i + 1, out.dxdt, states, controls, seen)

\* The loop of FatigueUniqueList.dynamics over enumerate(self) from position i
\* on; __next__ gives None for an empty slot, and None has no attribute models
RECURSIVE unique_dynamics_from(_, _, _, _, _, _)
unique_dynamics_from(lst, i, dxdt, states, controls, visits) ==
    IF i >= Len(lst.options) THEN [raised |-> "", dxdt |-> dxdt, visits |-> visits]
    ELSE IF lst.options[i + 1] = <<>>
    THEN [raised |-> "AttributeError", dxdt |-> dxdt, visits |-> visits]
    ELSE LET aggregator == lst.options[i + 1][1].models
             out == MultiFatigueModel_dynamics(aggregator.a.suffix,
                                               interface_lookup(aggregator.a), dxdt, i,
                                               states, controls)
             seen == Append(visits, Visit(i, aggregator, dxdt, out))
         IN  IF out.raised # ""
             THEN [raised |-> out.raised, dxdt |-> dxdt, visits |-> seen]
             ELSE unique_dynamics_from(lst, i + 1, out.dxdt, states, controls, seen)

\* FatigueUniqueList.dynamics(dxdt, nlp, states, controls) of the list of a family
FatigueUniqueList_dynamics(family, dxdt, states, controls) ==
    /\ calls < MaxRegistryCalls
    /\ \E k \in DOMAIN registry : registry[k].key = family
    /\ LET lst == dict_get(registry, family)
           out == unique_dynamics_from(lst, 0, dxdt, states, controls, <<>>)
       IN  ftrace' = Append(ftrace,
                            [op |-> "FatigueUniqueList.dynamics", family |-> family,
                             options |-> lst.options, dxdt |-> dxdt,
                             raised |-> out.raised, visits |-> out.visits,
                             returned |-> out.dxdt])
    /\ calls' = calls + 1
    /\ UNCHANGED <<agg, registry, ocp_vars>>

\* FatigueList.dynamics(dxdt, nlp, index, states, controls)
FatigueList_dynamics(dxdt, states, controls) ==
    /\ calls < MaxRegistryCalls
    /\ ftrace' = Append(ftrace,
                        [op |-> "FatigueList.dynamics", entries |-> registry,
                         dxdt |-> dxdt, states |-> states, controls |-> controls,
                         raised |-> "NotImplementedError", returned |-> dxdt])
    /\ calls' = calls + 1
    /\ UNCHANGED <<agg, registry, ocp_vars>>

\* A FatigueList nothing was added to, or one that holds the list of a family
\* as FatigueUniqueList(suffix) leaves it
InitRegistry ==
    /\ registry \in {<<>>, dict_set(<<>>, "muscles", FatigueUniqueList_init(<<"fatigue">>))}
    /\ agg = NoAggregator
    /\ ftrace = <<>>
    /\ nlp = <<>>
    /\ is_cyclic_constraint = FALSE
    /\ g = <<>>
    /\ g_bounds = [min |-> <<>>, max |-> <<>>]
    /\ gOwner = <<>>
    /\ bOwner = <<>>
    /\ units = <<>>
    /\ called = <<>>
    /\ last = [op |-> "", p |-> 0, raised |-> "", named |-> <<>>, g0 |-> 0,
               min0 |-> 0, max0 |-> 0, units0 |-> 0]
    /\ threads = [t \in Threads |-> Idle]
    /\ serialized = TRUE
    /\ calls = 0

NextRegistry ==
    \/ \E model \in FatigueModels(calls + 1), index \in 0..(MaxPhases - 1),
          dup \in Duplicate :
          \E state_only \in IF model.bare THEN BOOLEAN ELSE {FALSE} :
              FatigueList_add(model, index, state_only, dup)
    \/ \E family \in Families, dxdt \in Derivatives, states \in StateHandles,
          controls \in ControlHandles :
          FatigueUniqueList_dynamics(family, dxdt, states, controls)
    \/ \E dxdt \in Derivatives, states \in StateHandles, controls \in ControlHandles :
          FatigueList_dynamics(dxdt, states, controls)

SpecRegistry == InitRegistry /\ [][NextRegistry]_vars

(***************************************************************************)
(* Vocabulary of the properties.                                           *)
(***************************************************************************)
\* The positions of owner (gOwner or bOwner) that unit u appended
Positions(owner, u) == {k \in DOMAIN owner : owner[k] = u}

\* The units of the last call
LastUnits == (last.units0 + 1)..Len(units)

\* The rows of g that unit u appended, in order
RowsOf(u) == SelectSeq([k \in DOMAIN g |-> [row |-> g[k], unit |-> gOwner[k]]],
                       LAMBDA e : e.unit = u)

\* The bound pairs that unit u appended, in order
BoundsOf(u) ==
    SelectSeq([k \in DOMAIN bOwner |->
                  [min |-> g_bounds.min[k], max |-> g_bounds.max[k], unit |-> bOwner[k]]],
              LAMBDA e : e.unit = u)

Zero == [min |-> Fin(0), max |-> Fin(0)]
BoundPair(k) == [min |-> g_bounds.min[k], max |-> g_bounds.max[k]]

IsPrefix(s, t) == Len(s) <= Len(t) /\ \A k \in DOMAIN s : s[k] = t[k]

NonDecreasing(s) == \A k \in 1..(Len(s) - 1) : s[k] <= s[k + 1]

(***************************************************************************)
(* C1: after every call of add_constraints and of continuity_constraint,   *)
(* ocp.g has as many rows as ocp.g_bounds.min and as ocp.g_bounds.max have *)
(* entries.                                                                *)
(***************************************************************************)
C1_LengthInvariant ==
    /\ Len(g) = Len(g_bounds.min)
    /\ Len(g) = Len(g_bounds.max)

(***************************************************************************)
(* C2: (g, g_bounds.min, g_bounds.max) is append-only: every call keeps    *)
(* the previous content of the three sequences as a prefix, the rows and   *)
(* bounds of a constraint appended earlier sit before those of one         *)
(* appended later, and the k-th bound pair belongs to the constraint that  *)
(* appended the k-th row.                                                  *)
(***************************************************************************)
PrefixKept ==
    /\ IsPrefix(g, g')
    /\ IsPrefix(g_bounds.min, g_bounds'.min)
    /\ IsPrefix(g_bounds.max, g_bounds'.max)

BoundsBelongToRows ==
    /\ NonDecreasing(gOwner)
    /\ NonDecreasing(bOwner)
    /\ Len(g_bounds.min) = Len(g_bounds.max)
    /\ \A k \in DOMAIN g \cup DOMAIN bOwner :
          k \in DOMAIN g /\ k \in DOMAIN bOwner /\ gOwner[k] = bOwner[k]

C2_AppendOnlyPaired == [][PrefixKept]_vars /\ []BoundsBelongToRows

(***************************************************************************)
(* Vocabulary of the continuity properties.                                *)
(***************************************************************************)
ContinuityCalled == last.op = "continuity_constraint"

\* Sum of f[q] for q in a..b
RECURSIVE SumOver(_, _, _)
SumOver(f, a, b) == IF a > b THEN 0 ELSE f[a] + SumOver(f, a + 1, b)

\* Rows of the shooting intervals of phase q, and of the pair (q, q + 1)
IntraSize == [q \in DOMAIN nlp |-> nlp[q].ns * nlp[q].nx]
InterSize == [q \in DOMAIN nlp |-> nlp[q].nx]

Pairs == 0..(NbPhases - 2)
Mismatching == {i \in Pairs : nlp[i].nx # nlp[i + 1].nx}

\* The pairs the inter-phase pass reaches without raising
PairsBeforeMismatch == {i \in Pairs : \A m \in Mismatching : i < m}

\* Where the rows of the last call start in g, min and max, counted from 0
RowAt(n) == g[last.g0 + n + 1]
BoundAt(n) == [min |-> g_bounds.min[last.min0 + n + 1],
               max |-> g_bounds.max[last.max0 + n + 1]]

IntraTotal == SumOver(IntraSize, 0, NbPhases - 1)

(***************************************************************************)
(* C3 (as claimed): when two adjacent phases differ in nx,                 *)
(* continuity_constraint raises and leaves the lengths of g and of both    *)
(* bound sequences as they were before the call.                           *)
(***************************************************************************)
C3_MismatchKeepsLengths ==
    ContinuityCalled /\ Mismatching # {} =>
        /\ last.raised = PhaseMismatchMsg
        /\ Len(g) = last.g0
        /\ Len(g_bounds.min) = last.min0
        /\ Len(g_bounds.max) = last.max0

(***************************************************************************)
(* C3 (amended): when two adjacent phases differ in nx,                    *)
(* continuity_constraint raises at the first such pair m; the call has     *)
(* appended the intra-phase rows of every phase and the inter-phase rows   *)
(* of the pairs before m, each with its bounds, and nothing for pair m,    *)
(* for a later pair or for the cyclic pass.                                *)
(***************************************************************************)
C3_MismatchStopsAtPair ==
    ContinuityCalled /\ Mismatching # {} =>
        LET m == CHOOSE i \in Mismatching : \A o \in Mismatching : i <= o
            grown == IntraTotal + SumOver(InterSize, 0, m - 1)
            failed == units[Len(units)]
        IN  /\ last.raised = PhaseMismatchMsg
            /\ failed.op = "inter" /\ failed.p = m /\ failed.raised = PhaseMismatchMsg
            /\ Positions(gOwner, Len(units)) = {}
            /\ Positions(bOwner, Len(units)) = {}
            /\ \A u \in LastUnits :
                  /\ units[u].op # "cyclic"
                  /\ units[u].op = "inter" => units[u].p <= m
            /\ Len(g) = last.g0 + grown
            /\ Len(g_bounds.min) = last.min0 + grown
            /\ Len(g_bounds.max) = last.max0 + grown

C3_Witness ==
    /\ ContinuityCalled
    /\ last.raised = PhaseMismatchMsg
    /\ Len(g) > last.g0

(***************************************************************************)
(* C4: a continuity call that does not raise, with is_cyclic_constraint    *)
(* set, appends as its last rows exactly nx - 1 rows, row j being          *)
(* X[-1][j] of the last phase minus X[0][j] of the first phase for         *)
(* j = 1..nx-1, so the cyclic rows are all zero exactly when the two       *)
(* states agree on the components 1..nx-1; with the flag not set the call  *)
(* appends no cyclic row.                                                  *)
(***************************************************************************)
\* The value of a difference of two states under an assignment of numbers
Eval(row, val) == val[row.a] - val[row.b]

C4_CyclicResidual ==
    ContinuityCalled /\ last.raised = "" =>
        LET final == NbPhases - 1
            nx == nlp[0].nx
            cyc == {u \in LastUnits : units[u].op = "cyclic"}
        IN  IF is_cyclic_constraint
            THEN /\ Cardinality(cyc) = 1
                 /\ \A u \in cyc :
                      LET rows == RowsOf(u)
                      IN  /\ Len(rows) = nx - 1
                          /\ Positions(gOwner, u) = (Len(g) - nx + 2)..Len(g)
                          /\ \A j \in 1..(nx - 1) :
                                rows[j].row = Sub(XVar(final, nlp[final].ns, j),
                                                  XVar(0, 0, j))
                          /\ \A x0, xN \in [0..(nx - 1) -> {0, 1}] :
                                LET val == [v \in {XVar(0, 0, j) : j \in 0..(nx - 1)}
                                              \cup {XVar(final, nlp[final].ns, j) :
                                                       j \in 0..(nx - 1)} |->
                                            IF v.p = 0 /\ v.k = 0
                                            THEN x0[v.j] ELSE xN[v.j]]
                                IN  (\A j \in 1..(nx - 1) : xN[j] = x0[j])
                                    <=> (\A r \in DOMAIN rows : Eval(rows[r].row, val) = 0)
            ELSE /\ cyc = {}
                 /\ Len(g) = last.g0 + IntraTotal + SumOver(InterSize, 0, NbPhases - 2)

C4_Witness ==
    /\ ContinuityCalled
    /\ last.raised = ""
    /\ is_cyclic_constraint
    /\ NbPhases > 1
    /\ nlp[0].nx = MaxNx
    /\ \E u \in LastUnits : units[u].op = "cyclic" /\ Len(RowsOf(u)) = MaxNx - 1

(***************************************************************************)
(* C8: a continuity call appends first, for every phase in phase order and *)
(* every shooting interval k in increasing k, the nx rows                  *)
(* integrate(X[k], U[k]) - X[k + 1] with bounds [0, 0]: ns * nx rows per   *)
(* phase, and no integrated row for any other node pair.                   *)
(***************************************************************************)
C8_IntraPhaseBlocks ==
    ContinuityCalled =>
        /\ \A p \in DOMAIN nlp : \A k \in 0..(nlp[p].ns - 1) : \A j \in 0..(nlp[p].nx - 1) :
              LET n == SumOver(IntraSize, 0, p - 1) + k * nlp[p].nx + j
              IN  /\ last.g0 + n + 1 \in DOMAIN g
                  /\ RowAt(n) = Sub(Xf(p, k, j), XVar(p, k + 1, j))
                  /\ BoundAt(n) = Zero
        /\ Cardinality({n \in (last.g0 + 1)..Len(g) : g[n].kind = "sub" /\ g[n].a.kind = "xf"})
              = IntraTotal
        /\ \A u \in LastUnits : units[u].op = "intra" =>
              Cardinality(Positions(gOwner, u)) = nlp[units[u].p].nx

C8_Witness ==
    /\ ContinuityCalled
    /\ \E p \in DOMAIN nlp : p > 0 /\ nlp[p].ns > 1 /\ nlp[p].nx > 1 /\ nlp[0].ns # nlp[p].ns

(***************************************************************************)
(* C9 (as claimed): a continuity call appends, for every adjacent phase    *)
(* pair (i, i + 1) with equal nx, the nx rows                              *)
(* X[-1] of phase i minus X[0] of phase i + 1 with bounds [0, 0], after    *)
(* the intra-phase rows of all phases and in increasing i.                 *)
(***************************************************************************)
InterBlockAt(i, start) ==
    \A j \in 0..(nlp[i].nx - 1) :
        /\ last.g0 + start + j + 1 \in DOMAIN g
        /\ RowAt(start + j) = Sub(XVar(i, nlp[i].ns, j), XVar(i + 1, 0, j))
        /\ last.min0 + start + j + 1 \in DOMAIN g_bounds.min
        /\ last.max0 + start + j + 1 \in DOMAIN g_bounds.max
        /\ BoundAt(start + j) = Zero

C9_EveryMatchingPair ==
    ContinuityCalled =>
        \A i \in Pairs \ Mismatching :
            \E start \in IntraTotal..Len(g) : InterBlockAt(i, start)

(***************************************************************************)
(* C9 (amended): a continuity call appends, after the intra-phase rows of  *)
(* all phases and in increasing i, for every adjacent pair (i, i + 1)      *)
(* that precedes the first pair with different nx (every pair when there   *)
(* is none), the nx rows X[-1] of phase i minus X[0] of phase i + 1 with   *)
(* bounds [0, 0]; these are the only inter-phase blocks, P - 1 of them     *)
(* when all pairs match.                                                   *)
(***************************************************************************)
C9_InterPhaseBlocks ==
    ContinuityCalled =>
        /\ \A i \in PairsBeforeMismatch :
              InterBlockAt(i, IntraTotal + SumOver(InterSize, 0, i - 1))
        /\ {units[u].p : u \in {v \in LastUnits : units[v].op = "inter"
                                                  /\ units[v].raised = ""}}
              = PairsBeforeMismatch
        /\ Cardinality({v \in LastUnits : units[v].op = "inter" /\ units[v].raised = ""})
              = Cardinality(PairsBeforeMismatch)
        /\ \A u \in LastUnits : units[u].op = "inter" /\ units[u].raised = "" =>
              /\ Cardinality(Positions(gOwner, u)) = nlp[units[u].p].nx
              /\ \A v \in LastUnits : units[v].op = "intra" => v < u
        /\ Mismatching = {} => Cardinality(PairsBeforeMismatch) = NbPhases - 1

C9_Witness ==
    /\ ContinuityCalled
    /\ NbPhases = 3
    /\ Mismatching = {}
    /\ nlp[0].nx > 1
    /\ Cardinality({v \in LastUnits : units[v].op = "inter"}) = 2

(***************************************************************************)
(* Vocabulary of the dispatch properties.                                  *)
(***************************************************************************)
\* Unit u is a descriptor that still had its selector and its type
Declared(u) ==
    /\ units[u].op = "constraint"
    /\ {"instant", "type"} \subseteq DOMAIN units[u].desc[1]

DescriptorOf(u) == units[u].desc[1]

AppendedNothing(u) == Positions(gOwner, u) = {} /\ Positions(bOwner, u) = {}

\* An exception ends the call: the unit is the last one of its call
EndsItsCall(u) == \A v \in DOMAIN units : v > u => units[v].call # units[u].call

TerminalNode(u) ==
    \/ DescriptorOf(u).instant = InstantOf("END")
    \/ DescriptorOf(u).instant = NodeOf(nlp[units[u].p].ns)

NeedsControl ==
    {"proportional_control", "contact_force_greater_than",
     "contact_force_lesser_than", "non_slipping"}

(***************************************************************************)
(* C5: a PROPORTIONAL_CONTROL, CONTACT_FORCE_GREATER_THAN,                 *)
(* CONTACT_FORCE_LESSER_THAN or NON_SLIPPING descriptor whose selector is  *)
(* Instant.END or the integer nlp["ns"] makes add_constraints raise        *)
(* "No control u at last node", and nothing is appended for it.            *)
(***************************************************************************)
C5_TerminalNodeRejected ==
    \A u \in DOMAIN units :
        Declared(u) /\ DescriptorOf(u).type \in NeedsControl /\ TerminalNode(u) =>
            /\ units[u].raised = NoControlMsg
            /\ units[u].builder = ""
            /\ AppendedNothing(u)
            /\ EndsItsCall(u)
            /\ units[u].call = calls => last.raised = NoControlMsg

C5_Witness ==
    \E u, v \in DOMAIN units :
        /\ Declared(u) /\ Declared(v)
        /\ units[u].call = units[v].call
        /\ u < v
        /\ Positions(gOwner, u) # {}
        /\ DescriptorOf(v).type = "non_slipping"
        /\ DescriptorOf(v).instant = NodeOf(nlp[units[v].p].ns)
        /\ units[v].raised = NoControlMsg
        /\ AppendedNothing(v)

(***************************************************************************)
(* C6: a contact-force descriptor appends one row per resolved control     *)
(* slice, CS_func(X[i], U[i])[idx], and one bound pair per row:            *)
(* (boundary, +inf) for CONTACT_FORCE_GREATER_THAN and (-inf, boundary)    *)
(* for CONTACT_FORCE_LESSER_THAN, and no other bound pair.                 *)
(***************************************************************************)
C6_ContactForceBounds ==
    \A u \in DOMAIN units :
        /\ Declared(u)
        /\ DescriptorOf(u).type \in {"contact_force_greater_than",
                                     "contact_force_lesser_than"}
        /\ units[u].raised = ""
        => LET d == DescriptorOf(u)
               rows == RowsOf(u)
               bounds == BoundsOf(u)
           IN  /\ units[u].builder = "contact_force_inequality"
               /\ Len(rows) = Len(units[u].U)
               /\ Len(bounds) = Len(units[u].U)
               /\ \A i \in DOMAIN rows :
                     rows[i].row = CS(units[u].p, units[u].X[i], units[u].U[i], d.idx)
               /\ \A i \in DOMAIN bounds :
                     IF d.type = "contact_force_greater_than"
                     THEN bounds[i].min = Fin(d.boundary) /\ bounds[i].max = PosInf
                     ELSE bounds[i].min = NegInf /\ bounds[i].max = Fin(d.boundary)

C6_Witness ==
    \E u, v \in DOMAIN units :
        /\ Declared(u) /\ Declared(v)
        /\ DescriptorOf(u).type = "contact_force_greater_than"
        /\ DescriptorOf(v).type = "contact_force_lesser_than"
        /\ Len(RowsOf(u)) = MaxNs
        /\ Len(BoundsOf(v)) = MaxNs

(***************************************************************************)
(* C7: for every resolved node a non-slipping descriptor appends two rows, *)
(* mu * N + T and mu * N - T, N being the sum of the contact forces of     *)
(* normal_component_idx only and T the sum of those of                     *)
(* tangential_component_idx only, each row bounded by [0, +inf).           *)
(***************************************************************************)
C7_NonSlippingRows ==
    \A u \in DOMAIN units :
        Declared(u) /\ DescriptorOf(u).type = "non_slipping" /\ units[u].raised = "" =>
            LET d == DescriptorOf(u)
                e == units[u]
                rows == RowsOf(u)
                bounds == BoundsOf(u)
                N(i) == [n \in DOMAIN d.normal_component_idx |->
                            CS(e.p, e.X[i], e.U[i], d.normal_component_idx[n])]
                T(i) == [n \in DOMAIN d.tangential_component_idx |->
                            CS(e.p, e.X[i], e.U[i], d.tangential_component_idx[n])]
            IN  /\ Len(rows) = 2 * Len(e.U)
                /\ Len(bounds) = 2 * Len(e.U)
                /\ \A i \in DOMAIN e.U :
                      /\ rows[2 * i - 1].row =
                            Friction(d.static_friction_coefficient, N(i), T(i), 1)
                      /\ rows[2 * i].row =
                            Friction(d.static_friction_coefficient, N(i), T(i), -1)
                /\ \A i \in DOMAIN bounds :
                      bounds[i].min = Fin(0) /\ bounds[i].max = PosInf

(***************************************************************************)
(* C10: a descriptor whose type is none of the ten Constraint.Type values  *)
(* makes add_constraints raise an error that carries the descriptor, and   *)
(* nothing is appended for it; a descriptor of a known type takes the one  *)
(* branch of its type, whose builder is the only one called for it.        *)
(***************************************************************************)
BuilderOfType(type) ==
    CASE type = "markers_to_match" -> "markers_to_match"
      [] type = "align_with_custom_rt" -> "align_with_custom_rt"
      [] type = "projection_on_plane" -> "projection_on_plane_constraint"
      [] type = "track_q" -> "q_to_match"
      [] type \in {"proportional_q", "proportional_control"} -> "proportional_variable"
      [] type \in {"contact_force_greater_than", "contact_force_lesser_than"} ->
            "contact_force_inequality"
      [] type = "non_slipping" -> "non_slipping"
      [] type = "custom" -> "function"

C10_DispatchByType ==
    \A u \in DOMAIN units :
        Declared(u) =>
            LET d == DescriptorOf(u)
            IN  IF d.type \in Range(ConstraintType)
                THEN /\ units[u].branch = d.type
                     /\ \/ units[u].builder = BuilderOfType(d.type)
                        \/ /\ units[u].builder = ""
                           /\ units[u].raised = NoControlMsg
                           /\ d.type \in NeedsControl
                     /\ units[u].raised # NotValidMsg
                ELSE /\ units[u].raised = NotValidMsg
                     /\ units[u].builder = ""
                     /\ AppendedNothing(u)
                     /\ EndsItsCall(u)
                     /\ units[u].call = calls =>
                           /\ last.raised = NotValidMsg
                           /\ last.named = <<[k \in DOMAIN d \ {"instant", "type"} |-> d[k]]>>

C10_Witness ==
    \E u, v \in DOMAIN units :
        /\ Declared(u) /\ Declared(v)
        /\ units[u].call = units[v].call
        /\ u < v
        /\ DescriptorOf(u).type = "custom"
        /\ units[u].builder = "function"
        /\ DescriptorOf(v).type = "not_a_type"
        /\ units[v].raised = NotValidMsg
        /\ units[v].call = calls

(***************************************************************************)
(* C11: once add_constraints has processed a descriptor, the descriptor    *)
(* holds neither its instant nor its type key (nor function, for a custom  *)
(* one), and a later add_constraints call on the same phase appends no row *)
(* and no bound for that descriptor.                                       *)
(***************************************************************************)
\* The descriptor of unit u as the phase holds it now
HeldBy(u) == nlp[units[u].p].constraints[1][units[u].idx]

C11_ConsumedOnce ==
    \A u \in DOMAIN units :
        units[u].op = "constraint" =>
            /\ "instant" \notin DOMAIN HeldBy(u)
            /\ "type" \notin DOMAIN HeldBy(u)
            /\ units[u].branch = "custom" => "function" \notin DOMAIN HeldBy(u)
            /\ \A v \in DOMAIN units :
                  /\ v > u
                  /\ units[v].op = "constraint"
                  /\ units[v].p = units[u].p
                  /\ units[v].idx = units[u].idx
                  => AppendedNothing(v) /\ units[v].raised # ""

C11_Witness ==
    \E u, v \in DOMAIN units :
        /\ u < v
        /\ units[u].op = "constraint" /\ units[v].op = "constraint"
        /\ units[u].p = units[v].p /\ units[u].idx = units[v].idx
        /\ units[u].branch = "custom"
        /\ Positions(gOwner, u) # {} /\ Positions(bOwner, u) # {}
        /\ units[v].call = units[u].call + 1
        /\ AppendedNothing(v)

(***************************************************************************)
(* C12: a markers_to_match, align_with_custom_rt or projection_on_plane    *)
(* descriptor with a marker, segment or RT index outside the model's count *)
(* makes its builder raise, and no row and no bound of that descriptor is  *)
(* appended.                                                               *)
(***************************************************************************)
OutOfRange(d) ==
    CASE d.type = "markers_to_match" ->
            ~(d.first_marker \in 0..(nbMarkers - 1) /\ d.second_marker \in 0..(nbMarkers - 1))
      [] d.type = "align_with_custom_rt" ->
            ~(d.segment \in 0..(nbSegment - 1) /\ d.rt \in 0..(nbRTs - 1))
      [] d.type = "projection_on_plane" ->
            ~(d.marker \in 0..(nbMarkers - 1) /\ d.segment \in 0..(nbSegment - 1))
      [] OTHER -> FALSE

C12_IndexChecked ==
    \A u \in DOMAIN units :
        Declared(u) /\ OutOfRange(DescriptorOf(u)) =>
            units[u].raised # "" /\ AppendedNothing(u)

(***************************************************************************)
(* C13: a track_q descriptor whose data_to_track does not have the shape   *)
(* [ns + 1, number of selected states] makes the builder raise with no row *)
(* and no bound appended; when the builder returns, it has appended for    *)
(* every resolved node one row per selected state, state minus data at the *)
(* node's time index, each with bounds (0, 0).                             *)
(***************************************************************************)
\* The states a track_q descriptor selects: states_idx, every state when it is
\* absent or ()
SelectedStates(u) ==
    LET d == DescriptorOf(u)
    IN  IF "states_idx" \in DOMAIN d /\ d.states_idx # <<>>
        THEN d.states_idx
        ELSE [s \in 1..nlp[units[u].p].nx |-> s - 1]

TrackedShape(u) == <<nlp[units[u].p].ns + 1, Len(SelectedStates(u))>>

C13_TrackingValidated ==
    \A u \in DOMAIN units :
        Declared(u) /\ DescriptorOf(u).type = "track_q" =>
            LET d == DescriptorOf(u)
                e == units[u]
                sel == SelectedStates(u)
                n == Len(sel)
                rows == RowsOf(u)
                bounds == BoundsOf(u)
            IN  /\ d.data_to_track.shape # TrackedShape(u) =>
                      e.raised # "" /\ AppendedNothing(u)
                /\ e.raised = "" =>
                      /\ Len(rows) = Len(e.X) * n
                      /\ Len(bounds) = Len(e.X) * n
                      /\ \A i \in DOMAIN e.X : \A s \in 1..n :
                            /\ rows[(i - 1) * n + s].row =
                                  Sub(XVar(e.p, e.X[i], sel[s]), Data(e.X[i], sel[s]))
                            /\ bounds[(i - 1) * n + s].min = Fin(0)
                            /\ bounds[(i - 1) * n + s].max = Fin(0)

C13_Witness ==
    \E u, v \in DOMAIN units :
        /\ Declared(u) /\ Declared(v)
        /\ u < v /\ units[u].call = units[v].call
        /\ DescriptorOf(u).type = "track_q" /\ DescriptorOf(v).type = "track_q"
        /\ Len(SelectedStates(u)) = 2
        /\ Len(RowsOf(u)) = 2 * (MaxNs + 1)
        /\ DescriptorOf(v).data_to_track.shape # TrackedShape(v)
        /\ Len(SelectedStates(v)) = 1
        /\ units[v].raised # ""
        /\ AppendedNothing(v)

(***************************************************************************)
(* Vocabulary of C14.                                                      *)
(***************************************************************************)
\* Unit u is a proportional descriptor that reached __proportional_variable
ReachedProportional(u) ==
    /\ Declared(u)
    /\ DescriptorOf(u).type \in {"proportional_q", "proportional_control"}
    /\ units[u].builder = "proportional_variable"

\* The variable a proportional descriptor constrains and its slices
ProportionalVar(u) == IF DescriptorOf(u).type = "proportional_q" THEN "X" ELSE "U"
ProportionalSlices(u) ==
    IF DescriptorOf(u).type = "proportional_q" THEN units[u].X ELSE units[u].U
ProportionalRows(u) ==
    IF DescriptorOf(u).type = "proportional_q"
    THEN nlp[units[u].p].nx ELSE nlp[units[u].p].nu

DofsInRange(u) ==
    /\ DescriptorOf(u).first_dof \in 0..(ProportionalRows(u) - 1)
    /\ DescriptorOf(u).second_dof \in 0..(ProportionalRows(u) - 1)

\* One row v[first_dof] - coef * v[second_dof] with bounds (0, 0) per slice
OneRowPerSlice(u) ==
    LET d == DescriptorOf(u)
        UX == ProportionalSlices(u)
        rows == RowsOf(u)
        bounds == BoundsOf(u)
    IN  /\ units[u].raised = ""
        /\ Len(rows) = Len(UX)
        /\ Len(bounds) = Len(UX)
        /\ \A i \in DOMAIN UX :
              /\ rows[i].row = Proportional(ProportionalVar(u), units[u].p, UX[i],
                                            d.first_dof, d.second_dof, d.coef.v)
              /\ bounds[i].min = Fin(0)
              /\ bounds[i].max = Fin(0)

\* The numbers of Python (numbers.Number): bool and Fraction are among them
IsNumber(coef) == coef.kind \in {"int", "float", "bool", "Fraction"}

MarkerTerms(p, k, d) ==
    {Marker(p, k, m, r) : m \in {d.first_marker, d.second_marker}, r \in 0..2}

\* The row's value is within the bound pair, under the valuation val
WithinBounds(row, bound, val) ==
    /\ bound.min = Fin(0)
    /\ bound.max = Fin(0)
    /\ Eval(row, val) = 0

C15_MarkersCoincide ==
    \A u \in DOMAIN units :
        /\ Declared(u)
        /\ DescriptorOf(u).type = "markers_to_match"
        /\ units[u].raised = ""
        => LET d == DescriptorOf(u)
               e == units[u]
               rows == RowsOf(u)
               bounds == BoundsOf(u)
           IN  /\ Len(rows) = 3 * Len(e.X)
               /\ Len(bounds) = 3 * Len(e.X)
               /\ \A i \in DOMAIN e.X :
                     /\ \A r \in 1..3 :
                           /\ rows[3 * (i - 1) + r].row =
                                 Sub(Marker(e.p, e.X[i], d.first_marker, r - 1),
                                     Marker(e.p, e.X[i], d.second_marker, r - 1))
                           /\ bounds[3 * (i - 1) + r].min = Fin(0)
                           /\ bounds[3 * (i - 1) + r].max = Fin(0)
                     /\ \A val \in [MarkerTerms(e.p, e.X[i], d) -> {0, 1}] :
                           (\A r \in 1..3 : WithinBounds(rows[3 * (i - 1) + r].row,
                                                         bounds[3 * (i - 1) + r], val))
                           <=> (\A r \in 0..2 :
                                   val[Marker(e.p, e.X[i], d.first_marker, r)] =
                                   val[Marker(e.p, e.X[i], d.second_marker, r)])

C15_Witness ==
    \E u \in DOMAIN units :
        /\ Declared(u)
        /\ DescriptorOf(u).type = "markers_to_match"
        /\ DescriptorOf(u).instant = InstantOf("ALL")
        /\ units[u].raised = ""
        /\ Len(RowsOf(u)) = 3 * (MaxNs + 1)
        /\ Len(BoundsOf(u)) = 3 * (MaxNs + 1)

(***************************************************************************)
(* C16: add_constraints on a phase whose nlp["constraints"] is None or an  *)
(* empty list returns without raising and leaves ocp.g, ocp.g_bounds.min   *)
(* and ocp.g_bounds.max as they were.                                      *)
(***************************************************************************)
NoDescriptors(p) == nlp[p].constraints \in {NoConstraints, Constraints(<<>>)}

\* The step is a call of add_constraints on a phase without descriptors
EmptyCall ==
    /\ calls' = calls + 1
    /\ last'.op = "add_constraints"
    /\ NoDescriptors(last'.p)

EmptyCallKeepsAll ==
    EmptyCall =>
        /\ last'.raised = ""
        /\ g' = g
        /\ g_bounds' = g_bounds
        /\ nlp' = nlp

C16_EmptyIsNoOp == [][EmptyCallKeepsAll]_vars

\* An empty call has returned on an ocp that already held rows and bounds
C16_Witness ==
    /\ last.op = "add_constraints"
    /\ NoDescriptors(last.p)
    /\ last.raised = ""
    /\ last.g0 > 0
    /\ last.min0 > 0
    /\ Len(g) = last.g0

(***************************************************************************)
(* C17: for a custom descriptor add_constraints calls the user callable    *)
(* once, with the slices x and u of the selector and the descriptor's      *)
(* parameters other than instant, type and function; apart from what the   *)
(* callable does nothing is appended, and the descriptor is not rejected   *)
(* at the terminal node.                                                   *)
(***************************************************************************)
CallsFor(u) == {c \in DOMAIN called : called[c].unit = u}

C17_CustomForwarded ==
    \A u \in DOMAIN units :
        /\ Declared(u)
        /\ DescriptorOf(u).type = "custom"
        /\ "function" \in DOMAIN DescriptorOf(u)
        => LET d == DescriptorOf(u)
               own == DOMAIN d \ {"instant", "type", "function"}
           IN  /\ units[u].raised = ""
               /\ Cardinality(CallsFor(u)) = 1
               /\ \A c \in CallsFor(u) :
                     /\ called[c].func = d.function
                     /\ called[c].x = units[u].X
                     /\ called[c].u = units[u].U
                     /\ called[c].kwargs = [k \in own |-> d[k]]
               /\ "function" \notin DOMAIN HeldBy(u)
               /\ d.function = "leave_alone" => AppendedNothing(u)

\* A custom descriptor with parameters of its own went through at the terminal
\* node, given as the integer ns
C17_Witness ==
    \E u \in DOMAIN units :
        /\ Declared(u)
        /\ DescriptorOf(u).type = "custom"
        /\ DescriptorOf(u).instant = NodeOf(nlp[units[u].p].ns)
        /\ "gain" \in DOMAIN DescriptorOf(u)
        /\ DescriptorOf(u).function = "leave_alone"
        /\ units[u].raised = ""
        /\ Cardinality(CallsFor(u)) = 1

(***************************************************************************)
(* Vocabulary of C18.                                                      *)
(***************************************************************************)
AllDone == \A t \in Threads : threads[t].pc = "done"

\* A block stored its rows, and fewer of them are in ocp.g now
RowLost ==
    \E u \in DOMAIN units :
        /\ "rows" \in DOMAIN units[u]
        /\ Cardinality(Positions(gOwner, u)) < units[u].rows

\* A row of ocp.g faces a bound that another block appended
Mispaired ==
    \E k \in DOMAIN g : k \in DOMAIN bOwner /\ bOwner[k] # gOwner[k]

(***************************************************************************)
(* C18, the serialized half: when the caller serializes the two calls,     *)
(* once both have returned no row is lost and no row of ocp.g faces the    *)
(* bounds of another block.                                                *)
(***************************************************************************)
C18_SerializedIsSafe == serialized /\ AllDone => ~RowLost /\ ~Mispaired

\* C18, the interleaved half: without serialization both calls can return with
\* a row lost
C18_InterleavedLosesRow == ~serialized /\ AllDone /\ RowLost

(***************************************************************************)
(* Vocabulary of the aggregator properties.                                *)
(***************************************************************************)
Lookups == {"default_bounds", "default_initial_guess", "dynamics"}

\* The requests that were resolved to a key of self.models
Resolved == {r \in DOMAIN ftrace : ftrace[r].op \in Lookups /\ ftrace[r].key # <<>>}

(***************************************************************************)
(* C19: in a name-keyed aggregator every default_bounds,                   *)
(* default_initial_guess and dynamics request for channel index i is       *)
(* resolved to the i-th name of suffix(), whatever requests came before;   *)
(* in a flat-list aggregator the index is resolved to itself.              *)
(***************************************************************************)
C19_IndexResolvesToSuffix ==
    \A r \in Resolved :
        LET e == ftrace[r]
        IN  IF agg.isdict
            THEN py_in_range(agg.suffix, e.index) =>
                    e.key[1] = KeyName(py_index(agg.suffix, e.index))
            ELSE e.key[1] = KeyIndex(e.index)

\* Index 1 of a two-channel aggregator was resolved by two different requests,
\* one of them after a request for another index
C19_Witness ==
    \E r, q \in Resolved :
        /\ r < q
        /\ agg.cls = "named"
        /\ Len(agg.suffix) = 2
        /\ ftrace[r].op = "dynamics"
        /\ ftrace[q].op = "default_bounds"
        /\ ftrace[r].index = 0
        /\ ftrace[q].index = 1
        /\ ftrace[q].key[1] = KeyName(agg.suffix[2])

(***************************************************************************)
(* C20: a default_bounds, default_initial_guess or dynamics request with   *)
(* an index at or past the number of channels of the aggregator raises,    *)
(* for name-keyed, flat-list and MultiFatigueInterface aggregators alike;  *)
(* no value is returned for it.                                            *)
(***************************************************************************)
C20_BeyondCountRaises ==
    \A r \in DOMAIN ftrace :
        ftrace[r].op \in Lookups /\ ftrace[r].index >= ftrace[r].shape =>
            ftrace[r].raised # "" /\ ftrace[r].value = <<>>

(***************************************************************************)
(* C24: MultiFatigueModel.dynamics calls _dynamics_per_suffix once per     *)
(* name of suffix(), in the order of suffix(); every call gets the index,  *)
(* states and controls of the request; the first call gets the dxdt of the *)
(* request, each later call the dxdt the call before it returned, and the  *)
(* value of the last call is the value of the request.  A call that raises *)
(* ends the request.                                                       *)
(***************************************************************************)
DynamicsRequests == {r \in DOMAIN ftrace : ftrace[r].op = "dynamics"}

FoldsInOrder(e, suffix) ==
    /\ Len(e.hooks) <= Len(suffix)
    /\ e.raised = "" => Len(e.hooks) = Len(suffix)
    /\ \A k \in DOMAIN e.hooks :
          /\ e.hooks[k].suffix = suffix[k]
          /\ e.hooks[k].index = e.index
          /\ e.hooks[k].states = e.states
          /\ e.hooks[k].controls = e.controls
          /\ e.hooks[k].dxdt = IF k = 1 THEN e.dxdt ELSE e.hooks[k - 1].returned
          /\ e.hooks[k].raised # "" => k = Len(e.hooks) /\ e.raised = e.hooks[k].raised
    /\ e.raised = "" =>
          e.returned = IF e.hooks = <<>> THEN e.dxdt
                       ELSE e.hooks[Len(e.hooks)].returned

C24_FoldsChannelsInOrder ==
    \A r \in DynamicsRequests : FoldsInOrder(ftrace[r], agg.suffix)

C24_Witness ==
    \E r \in DynamicsRequests :
        /\ ftrace[r].raised = ""
        /\ ftrace[r].dxdt = <<BaseDynamics>>
        /\ Len(ftrace[r].hooks) = 2
        /\ Len(ftrace[r].returned) = 3
        /\ ftrace[r].returned[3].suffix = agg.suffix[2]

(***************************************************************************)
(* C26: an aggregator whose suffix() is not empty keeps, in every state,   *)
(* the names of suffix() as the keys of self.models, in the same order;    *)
(* its shape is the number of names, and the channel named suffix()[i]     *)
(* holds the i-th model given to the constructor (the models given are     *)
(* numbered 1, 2, ... in the order of the list).                           *)
(***************************************************************************)
C26_KeysAreSuffix ==
    (Constructed /\ agg.suffix # <<>>) =>
        /\ agg.isdict
        /\ dict_keys(agg.models) = agg.suffix
        /\ shape = Len(agg.suffix)
        /\ \A i \in DOMAIN agg.suffix :
              agg.suffix[i] # "" => dict_get(agg.models, agg.suffix[i]) = <<i>>

C26_Witness ==
    /\ agg.cls = "named"
    /\ Len(agg.suffix) = 2
    /\ agg.suffix[1] # "" /\ agg.suffix[2] # ""
    /\ dict_get(agg.models, agg.suffix[2]) = <<2>>
    /\ \E r, q \in DOMAIN ftrace :
          r < q /\ ftrace[r].op = "add" /\ ftrace[q].op = "default_bounds"

(***************************************************************************)
(* C29: MultiFatigueModel.add(fatigue) on a flat-list aggregator appends   *)
(* fatigue at the end: shape grows by one and every earlier entry keeps    *)
(* its position.  On a name-keyed aggregator add raises and self.models    *)
(* and shape are as before.                                                *)
(***************************************************************************)
AddStep ==
    /\ Len(ftrace') = Len(ftrace) + 1
    /\ ftrace'[Len(ftrace')].op = "add"

AddAppendsOrFails ==
    AddStep =>
        LET e == ftrace'[Len(ftrace')]
        IN  IF agg.suffix = <<>>
            THEN /\ e.raised = ""
                 /\ Len(agg'.models) = Len(agg.models) + 1
                 /\ SubSeq(agg'.models, 1, Len(agg.models)) = agg.models
            ELSE /\ e.raised # ""
                 /\ agg' = agg

C29_AddAppendsOrFails == [][AddAppendsOrFails]_vars

C29_Witness ==
    /\ agg.cls = "flat"
    /\ Len(agg.models) = 3
    /\ agg.models[3] = 3
    /\ \E r \in DOMAIN ftrace : ftrace[r].op = "add" /\ ftrace[r].raised = ""

(***************************************************************************)
(* Vocabulary of the registry properties.                                  *)
(***************************************************************************)
LastRequest == ftrace'[Len(ftrace')]
ListRequests == {r \in DOMAIN ftrace : ftrace[r].op = "FatigueUniqueList.dynamics"}
Filled(options) == {k \in DOMAIN options : options[k] # <<>>}
has_family(entries, family) == \E k \in DOMAIN entries : entries[k].key = family

\* The fold the registry is to compute: the lists of the families in the order
\* of the keys, each fed the value of the one before
RECURSIVE FoldFamilies(_, _, _, _, _)
FoldFamilies(entries, k, dxdt, states, controls) ==
    IF k > Len(entries) THEN [raised |-> "", dxdt |-> dxdt]
    ELSE LET out == unique_dynamics_from(entries[k].value, 0, dxdt, states, controls,
                                         <<>>)
         IN  IF out.raised # "" THEN [raised |-> out.raised, dxdt |-> dxdt]
             ELSE FoldFamilies(entries, k + 1, out.dxdt, states, controls)

(***************************************************************************)
(* C21: FatigueList.dynamics returns the state derivative folded over the  *)
(* aggregators of every registered family, the families taken in the order *)
(* of their first declaration and each call fed the expression returned by *)
(* the call before.                                                        *)
(***************************************************************************)
C21_RegistryFoldsFamilies ==
    \A r \in DOMAIN ftrace :
        ftrace[r].op = "FatigueList.dynamics" =>
            LET e == ftrace[r]
                fold == FoldFamilies(e.entries, 1, e.dxdt, e.states, e.controls)
            IN  fold.raised = "" => e.raised = "" /\ e.returned = fold.dxdt

(***************************************************************************)
(* C22: FatigueUniqueList.dynamics on a list whose positions 0..n-1 all    *)
(* hold an aggregator calls the dynamics of each of them once, in          *)
(* increasing position, with index equal to the position; the first call   *)
(* gets the dxdt given, each later call the value of the call before, and  *)
(* the value of the last call is returned (the dxdt given when n = 0).     *)
(***************************************************************************)
C22_ListFoldsInPosition ==
    \A r \in ListRequests :
        LET e == ftrace[r]
            n == Len(e.options)
        IN  Filled(e.options) = 1..n =>
                /\ e.raised = ""
                /\ Len(e.visits) = n
                /\ \A k \in 1..n :
                      /\ e.visits[k].index = k - 1
                      /\ e.visits[k].aggregator = e.options[k][1].models
                      /\ e.visits[k].dxdt = IF k = 1 THEN e.dxdt
                                            ELSE e.visits[k - 1].returned
                      /\ e.visits[k].returned[Len(e.visits[k].returned)].index = k - 1
                /\ e.returned = IF n = 0 THEN e.dxdt ELSE e.visits[n].returned

C22_Witness ==
    \E r \in ListRequests :
        /\ Filled(ftrace[r].options) = 1..2
        /\ ftrace[r].dxdt = <<BaseDynamics>>
        /\ Len(ftrace[r].visits) = 2
        /\ ftrace[r].visits[2].index = 1
        /\ Len(ftrace[r].returned) = 3

(***************************************************************************)
(* C23: FatigueUniqueList.dynamics on a list with a phase that holds no    *)
(* aggregator (no phase at all, or an empty slot before a registered       *)
(* phase) raises nothing, calls no aggregator for that phase, and returns  *)
(* the dxdt given when no phase holds an aggregator.                       *)
(***************************************************************************)
C23_UnregisteredIsNoOp ==
    \A r \in ListRequests :
        LET e == ftrace[r]
        IN  Filled(e.options) # DOMAIN e.options \/ e.options = <<>> =>
                /\ e.raised = ""
                /\ \A k \in DOMAIN e.visits : e.visits[k].index + 1 \in Filled(e.options)
                /\ Filled(e.options) = {} => e.returned = e.dxdt

(***************************************************************************)
(* C25: FatigueList.add wraps a bare FatigueModel into the aggregator of   *)
(* its multi_type with the state_only given; it makes the entry of the     *)
(* family (a FatigueUniqueList) when the family has none, at the end of    *)
(* the keys, and otherwise keeps the entry: the keys and their order stay, *)
(* the lists of the other families stay, and every aggregator registered   *)
(* before is still at its phase.                                           *)
(***************************************************************************)
RegistryAddStep ==
    /\ Len(ftrace') = Len(ftrace) + 1
    /\ LastRequest.op = "FatigueList.add"

AddKeepsEarlier ==
    RegistryAddStep =>
        LET e == LastRequest
            family == e.model.family
            new == dict_get(registry', family).options
        IN  /\ dict_keys(registry') = IF has_family(registry, family)
                                      THEN dict_keys(registry)
                                      ELSE Append(dict_keys(registry), family)
            /\ \A k \in DOMAIN registry :
                  registry[k].key # family => registry'[k] = registry[k]
            /\ has_family(registry, family) =>
                  LET old == dict_get(registry, family).options
                  IN  \A p \in Filled(old) :
                          /\ p \in Filled(new)
                          /\ new[p][1].models = old[p][1].models
            /\ ~has_family(registry, family) => Filled(new) = {e.index + 1}
            /\ (e.raised = "" /\ e.model.bare) =>
                  LET slot == new[e.index + 1][1]
                      put == IF slot.merged = <<>> THEN slot.models
                             ELSE slot.merged[Len(slot.merged)]
                  IN  put = multi_type(e.model, e.state_only)

C25_AddKeepsEarlier == [][AddKeepsEarlier]_vars

C25_Witness ==
    /\ dict_keys(registry) = <<"tau", "muscles">>
    /\ Filled(dict_get(registry, "muscles").options) = 1..2
    /\ dict_get(registry, "muscles").options[1][1].models.state_only
    /\ Len(ftrace) = 3
    /\ ftrace[2].model.bare /\ ftrace[2].model.family = "muscles"
    /\ ftrace[2].state_only /\ ftrace[2].index = 0
    /\ ftrace[3].model.family = "muscles" /\ ftrace[3].index = 1

(***************************************************************************)
(* C28: the proportional builder accepts the pair (first_dof, second_dof)  *)
(* exactly when both are rows of the expanded slice expand.map(v) that the *)
(* residual indexes.                                                       *)
(***************************************************************************)
CheckAccepted(u) == units[u].raised # "Invalid dof index"

RowsOfExpanded(u) ==
    /\ DescriptorOf(u).first_dof \in 0..(nlp[units[u].p].expand - 1)
    /\ DescriptorOf(u).second_dof \in 0..(nlp[units[u].p].expand - 1)

C28_CheckMatchesExpanded ==
    \A u \in DOMAIN units :
        ReachedProportional(u) => (CheckAccepted(u) <=> RowsOfExpanded(u))

(***************************************************************************)
(* C27: when add_constraints raises on descriptor j of a phase (the last   *)
(* node has no control, the type is unknown, an index is out of range, the *)
(* coef is not a number, the data has the wrong shape), the descriptors    *)
(* before j of that call were processed and their rows and bounds are in   *)
(* ocp.g and ocp.g_bounds, descriptor j has appended no row and no bound,  *)
(* j no longer has its "instant" and "type" keys, and, when the call       *)
(* ends, g, g_bounds.min and g_bounds.max have the same length.            *)
(***************************************************************************)
RaisedOn(u) == Declared(u) /\ units[u].raised # ""

C27_RaiseLeavesNoPartial ==
    \A u \in DOMAIN units :
        RaisedOn(u) =>
            /\ \A v \in DOMAIN units :
                  (v < u /\ units[v].call = units[u].call) =>
                      /\ units[v].raised = ""
                      /\ Positions(gOwner, v) = Positions(bOwner, v)
            /\ AppendedNothing(u)
            /\ LET left == nlp[units[u].p].constraints[1][units[u].idx]
               IN  "instant" \notin DOMAIN left /\ "type" \notin DOMAIN left
            /\ units[u].call = calls =>
                  Len(g) = Len(g_bounds.min) /\ Len(g) = Len(g_bounds.max)
====
